---- MODULE Spec2Model ----
(***************************************************************************)
(* Verification model of the object-store integrity checker               *)
(* (cloud/src/recycler/checker.cpp, cloud/src/recycler/sync_executor.h).  *)
(*                                                                         *)
(* The module holds several specifications over one set of variables:      *)
(*   Spec          one checker daemon process (scanner, lease thread,      *)
(*                 inspector thread, check workers, stop()).               *)
(*   SpecFleet     two checker processes sharing one KV store and one      *)
(*                 clock (the job-lease protocol).                         *)
(*   SpecQueue     one daemon process with one worker and two instances.  *)
(*   SpecWorker    one daemon process with one worker, and the clock its   *)
(*                 time stamps are read from.                              *)
(*   SpecCheck     one run of InstanceChecker::do_check, with a concurrent *)
(*                 writer deleting rowset keys.                            *)
(*   SpecInverted  one run of InstanceChecker::do_inverted_check.          *)
(*   SpecExecutor  one SyncExecutor, the thread that owns it and the pool  *)
(*                 threads that run its tasks.                             *)
(*   SpecInspect   one run of Checker::do_inspect on one instance.         *)
(* A specification leaves the variables of the others unchanged.           *)
(***************************************************************************)
EXTENDS Integers, Sequences, FiniteSets, TLC

VARIABLES
    \* ---- environment of the daemon: configuration, KV store, clock
    fleet,                     \* processes that were start()ed and run
    recycle_concurrency,       \* config::recycle_concurrency
    instance_filter_,          \* Checker::instance_filter_ as start() set it
    kv_instances,              \* KV: the instances get_all_instances lists
    job,                       \* KV: job_check/{instance_id} -> JobRecyclePB
    \* ---- Checker members, one per process
    stopped_,                  \* Checker::stopped_
    mtx_,                      \* Checker::mtx_ : its holder across a wait
    pending_instance_queue_,   \* Checker::pending_instance_queue_
    pending_instance_map_,     \* Checker::pending_instance_map_ (its keys)
    working_instance_map_,     \* Checker::working_instance_map_ : id -> checker
    \* ---- threads of the daemon
    scanner_pc,
    scanner_instances,         \* scanner_func: std::vector<InstanceInfoPB> instances
    lease_pc,
    lease_instances,           \* lease_check_jobs: local vector `instances`
    inspect_pc,
    worker_pc,
    worker_instance,           \* checker_func: local `instance`
    worker_ret,                \* checker_func: local `ret`
    checker_stopped,           \* InstanceChecker::stopped_ of the worker's checker
    stop_pc,                   \* position of the thread that calls stop()
    now_ms,                    \* system_clock::now(), where a specification tracks it
    worker_ctime_ms,           \* checker_func: local `ctime_ms`
    finish_log,                \* the finish call of the worker's current run
    \* ---- InstanceChecker::do_check: its environment
    kv_rowsets,                \* KV: meta_rowset/{instance}/* in key order
    rowset_key_deleted,        \* KV: the key of the rowset in check was deleted
    objects,                   \* object store: vault -> files it holds
    \* ---- InstanceChecker::do_check: locals
    check_pc,
    range_pos,                 \* range_it: key-value pairs returned so far
    range_valid,               \* range_it->is_valid()
    rs_index,                  \* index in kv_rowsets of rs_meta / key
    seg_i,                     \* the loop variable i of the segment loop
    tablet_files_cache,
    num_scanned,
    num_scanned_with_segment,
    num_check_failed,
    instance_volume,
    check_ret,                 \* value do_check returned
    check_log,                 \* the failures and re-probes of the run, in order
    volume_log,                \* the tablet volumes added to instance_volume, in order
    \* ---- InstanceChecker::do_inverted_check: locals
    inv_pc,
    inv_vaults,                \* the vaults the loop has still to visit
    inv_files,                 \* list_iter: the files it has still to return
    tablet_rowsets_cache,
    inv_num_scanned,
    inv_num_check_failed,
    inv_ret,                   \* value do_inverted_check returned
    inv_log,                   \* each file checked, what check_segment_file returned,
                               \* whether its KV read was let to succeed
    \* ---- SyncExecutor members and its caller
    _tasks,                    \* SyncExecutor::_tasks
    _count,                    \* SyncExecutor::_count (CountdownEvent)
    _stop_token,               \* SyncExecutor::_stop_token
    exec_pc,                   \* position of the thread that owns the executor
    exec_res,                  \* the vector the last when_all returned
    exec_finished,             \* *finished of the last when_all
    exec_batch,                \* _tasks as the last when_all found it
    exec_token_cleared,        \* reset() has cleared a stop token that was set
    \* ---- Checker::do_inspect: its environment and locals
    insp_pc,
    reserved_buffer_days,      \* config::reserved_buffer_days
    insp_ctime,                \* instance.ctime()
    insp_vaults,               \* storage_vault_map_ of the transient checker
    insp_job,                  \* KV: the value of job_check/{instance_id}
    insp_err,                  \* err, after create_txn and txn->get
    insp_init,                 \* what checker.init returned
    insp_ret,                  \* what get_bucket_lifecycle returned
    bucket_lifecycle_days,
    insp_alarms                \* the alarms do_inspect logged

daemonVars == <<fleet, recycle_concurrency, kv_instances, job, stopped_, mtx_,
                pending_instance_queue_, pending_instance_map_,
                working_instance_map_, scanner_pc, lease_pc, lease_instances,
                inspect_pc, worker_pc, worker_instance, worker_ret,
                checker_stopped, stop_pc, now_ms, worker_ctime_ms,
                finish_log, instance_filter_, scanner_instances>>

checkVars == <<kv_rowsets, rowset_key_deleted, objects, check_pc, range_pos,
               range_valid, rs_index, seg_i, tablet_files_cache, num_scanned,
               num_scanned_with_segment, num_check_failed, instance_volume,
               check_ret, check_log, volume_log>>

invVars == <<inv_pc, inv_vaults, inv_files, tablet_rowsets_cache,
             inv_num_scanned, inv_num_check_failed, inv_ret, inv_log>>

execVars == <<_tasks, _count, _stop_token, exec_pc, exec_res, exec_finished,
              exec_batch, exec_token_cleared>>

inspectVars == <<insp_pc, reserved_buffer_days, insp_ctime, insp_vaults,
                 insp_job, insp_err, insp_init, insp_ret,
                 bucket_lifecycle_days, insp_alarms>>

vars == <<daemonVars, checkVars, invVars, execVars, inspectVars>>

(***************************************************************************)
(* Bounds and configuration                                                *)
(***************************************************************************)
\* Time is counted in units of a third of the lease TTL, the period of the
\* lease thread.
\* config::check_object_interval_seconds * 1000, prepare's lease duration
check_object_interval_ms == 1

\* config::recycle_job_lease_expired_ms, the lease TTL a renewal grants
recycle_job_lease_expired_ms == 2

\* the readings of the clock a specification that tracks it goes through
MaxClock == 2

Procs == {"P", "Q"}
Workers == {1, 2}
NoInstance == "none"
Unlocked == 0

\* InstanceInfoPB records of the KV store, in key order: i3 is DELETED and
\* i4 is on the blacklist
InstanceIds == {"i1", "i2", "i3", "i4"}

InstanceInfo(id) ==
    [instance_id |-> id, status |-> IF id = "i3" THEN "DELETED" ELSE "NORMAL"]

OneInstance == << InstanceInfo("i1"), InstanceInfo("i3"), InstanceInfo("i4") >>

TwoInstances == << InstanceInfo("i1"), InstanceInfo("i2"), InstanceInfo("i3"),
                   InstanceInfo("i4") >>

\* config::recycle_whitelist, config::recycle_blacklist
recycle_whitelist == {}
recycle_blacklist == {"i4"}

\* outcomes of InstanceChecker::do_check as the worker sees them
DoCheckResults == {0, -1, -2}

(***************************************************************************)
(* Helpers on sequences                                                    *)
(***************************************************************************)
Range(s) == {s[k] : k \in 1..Len(s)}

QueueIds(q) == {q[k].instance_id : k \in 1..Len(q)}

(***************************************************************************)
(* Instance filter (spec section 4.1)                                      *)
(***************************************************************************)
\* InstanceFilter after reset(whitelist, blacklist)
InstanceFilter(whitelist, blacklist) ==
    [whitelist |-> whitelist, blacklist |-> blacklist]

\* filter_out that looks at the blacklist only
filter_out_blacklist_only(id) == id \in instance_filter_.blacklist

filter_out(id) ==
    IF instance_filter_.whitelist # {}
    THEN id \notin instance_filter_.whitelist
    ELSE id \in instance_filter_.blacklist

(***************************************************************************)
(* Job-lease primitives on the record of job_check/{instance_id}           *)
(* (spec section 4.2).  Each returns [ret, rec]: the return value and the  *)
(* record the transaction leaves in the KV store.                          *)
(***************************************************************************)
\* The record carries the fields the lease protocol reads; last_ctime_ms and
\* last_success_time_ms are written by prepare and finish and read by the
\* inspector only.  The clock is the time base of every lease, so the record
\* holds its expiration relative to the clock: lease_left_ms is
\* lease_expiration_ms - now, and 0 once the lease has expired.
NoJob == [present |-> FALSE, lessee |-> "", lease_left_ms |-> 0,
          status |-> "IDLE"]

\* now < lease_expiration_ms
unexpired(rec) == rec.lease_left_ms > 0

\* the record exists with an unexpired lease held by another lessee or BUSY
lease_conflict(rec, lessee) ==
    /\ rec.present
    /\ unexpired(rec)
    /\ (rec.lessee # lessee \/ rec.status = "BUSY")

prepare_instance_recycle_job(rec, lessee, lease_ms, txn_ok) ==
    IF ~txn_ok THEN [ret |-> -1, rec |-> rec]
    ELSE IF lease_conflict(rec, lessee) THEN [ret |-> 1, rec |-> rec]
    ELSE [ret |-> 0,
          rec |-> [present |-> TRUE,
                   lessee |-> lessee,
                   lease_left_ms |-> lease_ms,
                   status |-> "BUSY"]]

\* compare-and-set: the record's lessee is the caller and the lease is unexpired
lease_owned(rec, lessee) ==
    /\ rec.present
    /\ rec.lessee = lessee
    /\ unexpired(rec)

lease_instance_recycle_job(rec, lessee, txn_ok) ==
    IF ~txn_ok THEN [ret |-> -1, rec |-> rec]
    ELSE IF ~lease_owned(rec, lessee) THEN [ret |-> 1, rec |-> rec]
    ELSE [ret |-> 0,
          rec |-> [rec EXCEPT !.lease_left_ms = recycle_job_lease_expired_ms]]

\* the arguments of a call of finish_instance_recycle_job; NoFinish: no call
NoFinish == [called |-> FALSE, success |-> FALSE, ctime_ms |-> 0]

FinishCall(success, ctime_ms) ==
    [called |-> TRUE, success |-> success, ctime_ms |-> ctime_ms]

finish_instance_recycle_job(rec, lessee, success, txn_ok) ==
    IF ~txn_ok \/ ~lease_owned(rec, lessee) THEN rec
    ELSE [rec EXCEPT !.status = "IDLE"]

(***************************************************************************)
(* Initial state: the Checker objects after construction and start()       *)
(***************************************************************************)
InitChecker(F, nworkers, insts, filter) ==
    /\ fleet = F
    /\ instance_filter_ = filter
    /\ kv_instances = insts
    /\ recycle_concurrency = nworkers
    /\ job = [i \in InstanceIds |-> NoJob]
    /\ stopped_ = [p \in Procs |-> FALSE]
    /\ mtx_ = [p \in Procs |-> Unlocked]
    /\ pending_instance_queue_ = [p \in Procs |-> << >>]
    /\ pending_instance_map_ = [p \in Procs |-> {}]
    /\ working_instance_map_ = [p \in Procs |-> << >>]
    /\ scanner_pc = [p \in Procs |-> IF p \in F THEN "scan" ELSE "off"]
    /\ scanner_instances = [p \in Procs |-> << >>]
    /\ lease_pc = [p \in Procs |-> IF p \in F THEN "loop" ELSE "off"]
    /\ lease_instances = [p \in Procs |-> << >>]
    /\ inspect_pc = [p \in Procs |-> IF p \in F THEN "inspect" ELSE "off"]
    /\ worker_pc = [p \in Procs |-> [w \in Workers |->
                       IF p \in F /\ w <= nworkers THEN "fetch" ELSE "off"]]
    /\ worker_instance = [p \in Procs |-> [w \in Workers |-> NoInstance]]
    /\ worker_ret = [p \in Procs |-> [w \in Workers |-> 0]]
    /\ checker_stopped = [p \in Procs |-> [w \in Workers |-> FALSE]]
    /\ stop_pc = [p \in Procs |-> IF p \in F THEN "running" ELSE "off"]
    /\ now_ms = 0
    /\ worker_ctime_ms = [p \in Procs |-> [w \in Workers |-> 0]]
    /\ finish_log = [p \in Procs |-> [w \in Workers |-> NoFinish]]

\* start() with the configured whitelist and blacklist
InitDaemon(F, nworkers, insts) ==
    InitChecker(F, nworkers, insts,
                InstanceFilter(recycle_whitelist, recycle_blacklist))

\* Checker::stopped()
stopped(p) == stopped_[p]

\* notify_all on pending_instance_cond_: every worker blocked in wait() wakes
\* and evaluates the predicate again under the mutex
notify_all(pcs) ==
    [w \in Workers |-> IF pcs[w] = "blocked" THEN "woken" ELSE pcs[w]]

\* std::unordered_map::emplace: no effect when the key is already present
emplace(map, id, w) ==
    IF id \in DOMAIN map THEN map
    ELSE [k \in DOMAIN map \cup {id} |-> IF k = id THEN w ELSE map[k]]

\* std::unordered_map::erase(key)
erase(map, id) == [k \in DOMAIN map \ {id} |-> map[k]]

\* every order in which an unordered_map may be iterated
Orders(S) ==
    {s \in [1..Cardinality(S) -> S] : \A a, b \in 1..Cardinality(S) :
                                          a # b => s[a] # s[b]}

(***************************************************************************)
(* Scanner thread (scanner_func)                                           *)
(***************************************************************************)
RECURSIVE enqueue_instances_no_dedup(_, _, _)
\* enqueue_instances pushing an instance whether or not the insert succeeded
enqueue_instances_no_dedup(insts, queue, map) ==
    IF insts = << >> THEN [queue |-> queue, map |-> map]
    ELSE LET instance == Head(insts) IN
         IF filter_out(instance.instance_id)
            THEN enqueue_instances_no_dedup(Tail(insts), queue, map)
         ELSE IF instance.status = "DELETED"
            THEN enqueue_instances_no_dedup(Tail(insts), queue, map)
         ELSE enqueue_instances_no_dedup(Tail(insts), Append(queue, instance),
                                         map \cup {instance.instance_id})

RECURSIVE enqueue_instances(_, _, _)
\* the loop over `instances`: returns [queue, map] after the inserts
enqueue_instances(insts, queue, map) ==
    IF insts = << >> THEN [queue |-> queue, map |-> map]
    ELSE LET instance == Head(insts) IN
         IF filter_out(instance.instance_id)
            THEN enqueue_instances(Tail(insts), queue, map)
         ELSE IF instance.status = "DELETED"
            THEN enqueue_instances(Tail(insts), queue, map)
         ELSE IF instance.instance_id \in map
            THEN enqueue_instances(Tail(insts), queue, map)
         ELSE enqueue_instances(Tail(insts), Append(queue, instance),
                                map \cup {instance.instance_id})

\* while (!stopped()) left
ScannerExit(p) ==
    /\ scanner_pc[p] = "scan"
    /\ stopped(p)
    /\ scanner_pc' = [scanner_pc EXCEPT ![p] = "done"]
    /\ UNCHANGED <<fleet, recycle_concurrency, kv_instances, job, stopped_,
                 mtx_, pending_instance_queue_, pending_instance_map_,
                 working_instance_map_, lease_pc, lease_instances, inspect_pc,
                 worker_pc, worker_instance, worker_ret, checker_stopped,
                 stop_pc, now_ms, worker_ctime_ms, finish_log,
                 instance_filter_, scanner_instances, checkVars, invVars,
                 inspectVars, execVars>>

\* while (!stopped()) entered, get_all_instances with no lock held, and the
\* test of instances.empty().  With an empty list the block is skipped: the
\* thread sleeps in notifier_.wait_for(lock, interval, stopped), which holds
\* no lock while it waits and returns on stop or on timeout, and is back at
\* the loop head with nothing changed.  (A get_all_instances that fails
\* leaves the list empty, the same step that changes nothing.)
ScannerList(p) ==
    /\ scanner_pc[p] = "scan"
    /\ ~stopped(p)
    /\ LET instances == kv_instances IN
       IF instances # << >>
       THEN /\ scanner_instances' = [scanner_instances EXCEPT ![p] = instances]
            /\ scanner_pc' = [scanner_pc EXCEPT ![p] = "enqueue"]
       ELSE UNCHANGED <<scanner_instances, scanner_pc>>
    /\ UNCHANGED <<fleet, recycle_concurrency, kv_instances, job, stopped_,
                 mtx_, pending_instance_queue_, pending_instance_map_,
                 working_instance_map_, lease_pc, lease_instances, inspect_pc,
                 worker_pc, worker_instance, worker_ret, checker_stopped,
                 stop_pc, now_ms, worker_ctime_ms, finish_log,
                 instance_filter_, checkVars, invVars, inspectVars, execVars>>

\* the block of if (!instances.empty()): under mtx_, the enqueue loop and
\* notify_all; stopped() is not read again before it.  The thread then
\* sleeps in wait_for as above and is back at the loop head
ScannerEnqueue(p) ==
    /\ scanner_pc[p] = "enqueue"
    /\ mtx_[p] = Unlocked
    /\ LET r == enqueue_instances(scanner_instances[p],
                                  pending_instance_queue_[p],
                                  pending_instance_map_[p]) IN
       /\ pending_instance_queue_' =
              [pending_instance_queue_ EXCEPT ![p] = r.queue]
       /\ pending_instance_map_' = [pending_instance_map_ EXCEPT ![p] = r.map]
    /\ worker_pc' = [worker_pc EXCEPT ![p] = notify_all(worker_pc[p])]
    /\ scanner_instances' = [scanner_instances EXCEPT ![p] = << >>]
    /\ scanner_pc' = [scanner_pc EXCEPT ![p] = "scan"]
    /\ UNCHANGED <<fleet, recycle_concurrency, kv_instances, job, stopped_,
                 mtx_, working_instance_map_, lease_pc, lease_instances,
                 inspect_pc, worker_instance, worker_ret, checker_stopped,
                 stop_pc, now_ms, worker_ctime_ms, finish_log,
                 instance_filter_, checkVars, invVars, inspectVars, execVars>>

(***************************************************************************)
(* Lease thread (Checker::lease_check_jobs)                                *)
(***************************************************************************)
\* while (!stopped()) left
LeaseExit(p) ==
    /\ lease_pc[p] = "loop"
    /\ stopped(p)
    /\ lease_pc' = [lease_pc EXCEPT ![p] = "done"]
    /\ UNCHANGED <<fleet, recycle_concurrency, kv_instances, job, stopped_,
                 mtx_, pending_instance_queue_, pending_instance_map_,
                 working_instance_map_, scanner_pc, lease_instances,
                 inspect_pc, worker_pc, worker_instance, worker_ret,
                 checker_stopped, stop_pc, now_ms, worker_ctime_ms,
                 finish_log, instance_filter_, scanner_instances, checkVars,
                 invVars, inspectVars, execVars>>

\* while (!stopped()) entered and instances.reserve(
\* working_instance_map_.size()): the size is read before mtx_ is taken,
\* whoever holds it, while the workers insert and erase; whichever of the
\* sizes the map may have the read gives, it sets the capacity of
\* `instances` only
LeaseReserve(p) ==
    /\ lease_pc[p] = "loop"
    /\ ~stopped(p)
    /\ \E size \in 0..recycle_concurrency : UNCHANGED lease_instances
    /\ lease_pc' = [lease_pc EXCEPT ![p] = "snapshot"]
    /\ UNCHANGED <<fleet, recycle_concurrency, kv_instances, job, stopped_,
                 mtx_, pending_instance_queue_, pending_instance_map_,
                 working_instance_map_, scanner_pc, inspect_pc, worker_pc,
                 worker_instance, worker_ret, checker_stopped, stop_pc,
                 now_ms, worker_ctime_ms, finish_log, instance_filter_,
                 scanner_instances, checkVars, invVars, inspectVars, execVars>>

\* where the thread is once `rest` of the snapshot is left to lease: in the
\* loop over `instances`, or, the loop over, asleep in
\* notifier_.wait_for(lock, recycle_job_lease_expired_ms / 3, stopped), which
\* holds no lock while it waits and returns on stop or on timeout: back at
\* the loop head
after_lease(rest) == IF rest = << >> THEN "loop" ELSE "lease"

\* copy the ids of working_instance_map_ under mtx_; stopped() is not read
\* again before it
LeaseSnapshot(p) ==
    /\ lease_pc[p] = "snapshot"
    /\ mtx_[p] = Unlocked
    /\ \E order \in Orders(DOMAIN working_instance_map_[p]) :
           /\ lease_instances' = [lease_instances EXCEPT ![p] = order]
           /\ lease_pc' = [lease_pc EXCEPT ![p] = after_lease(order)]
    /\ UNCHANGED <<fleet, recycle_concurrency, kv_instances, job, stopped_,
                 mtx_, pending_instance_queue_, pending_instance_map_,
                 working_instance_map_, scanner_pc, inspect_pc, worker_pc,
                 worker_instance, worker_ret, checker_stopped, stop_pc,
                 now_ms, worker_ctime_ms, finish_log, instance_filter_,
                 scanner_instances, checkVars, invVars, inspectVars, execVars>>

\* one iteration of the loop over `instances`: the lease call
LeaseRenew(p) ==
    /\ lease_pc[p] = "lease"
    /\ \E txn_ok \in BOOLEAN :
         LET i == Head(lease_instances[p])
             rest == Tail(lease_instances[p])
             r == lease_instance_recycle_job(job[i], p, txn_ok) IN
         /\ job' = [job EXCEPT ![i] = r.rec]
         /\ IF r.ret = 1
            THEN /\ lease_pc' = [lease_pc EXCEPT ![p] = "lease_stop"]
                 /\ UNCHANGED lease_instances
            ELSE /\ lease_instances' = [lease_instances EXCEPT ![p] = rest]
                 /\ lease_pc' = [lease_pc EXCEPT ![p] = after_lease(rest)]
    /\ UNCHANGED <<fleet, recycle_concurrency, kv_instances, stopped_, mtx_,
                 pending_instance_queue_, pending_instance_map_,
                 working_instance_map_, scanner_pc, inspect_pc, worker_pc,
                 worker_instance, worker_ret, checker_stopped, stop_pc,
                 now_ms, worker_ctime_ms, finish_log, instance_filter_,
                 scanner_instances, checkVars, invVars, inspectVars, execVars>>

\* ret == 1: under mtx_, stop the checker the working map holds for the id
LeaseStop(p) ==
    /\ lease_pc[p] = "lease_stop"
    /\ mtx_[p] = Unlocked
    /\ LET i == Head(lease_instances[p])
           rest == Tail(lease_instances[p]) IN
       /\ checker_stopped' =
              IF i \in DOMAIN working_instance_map_[p]
              THEN [checker_stopped EXCEPT ![p][working_instance_map_[p][i]] = TRUE]
              ELSE checker_stopped
       /\ lease_instances' = [lease_instances EXCEPT ![p] = rest]
       /\ lease_pc' = [lease_pc EXCEPT ![p] = after_lease(rest)]
    /\ UNCHANGED <<fleet, recycle_concurrency, kv_instances, job, stopped_,
                 mtx_, pending_instance_queue_, pending_instance_map_,
                 working_instance_map_, scanner_pc, inspect_pc, worker_pc,
                 worker_instance, worker_ret, stop_pc, now_ms,
                 worker_ctime_ms, finish_log, instance_filter_,
                 scanner_instances, checkVars, invVars, inspectVars, execVars>>

(***************************************************************************)
(* Inspector thread (Checker::inspect_instance_check_interval)             *)
(***************************************************************************)
InspectExit(p) ==
    /\ inspect_pc[p] = "inspect"
    /\ stopped(p)
    /\ inspect_pc' = [inspect_pc EXCEPT ![p] = "done"]
    /\ UNCHANGED <<fleet, recycle_concurrency, kv_instances, job, stopped_,
                 mtx_, pending_instance_queue_, pending_instance_map_,
                 working_instance_map_, scanner_pc, lease_pc, lease_instances,
                 worker_pc, worker_instance, worker_ret, checker_stopped,
                 stop_pc, now_ms, worker_ctime_ms, finish_log,
                 instance_filter_, scanner_instances, checkVars, invVars,
                 inspectVars, execVars>>

\* one iteration: get_all_instances, do_inspect of each instance, wait_for
\* (a return from inside the walk on stopped() ends the thread as InspectExit
\* does)
InspectInstances(p) ==
    /\ inspect_pc[p] = "inspect"
    /\ ~stopped(p)
    /\ mtx_[p] = Unlocked
    /\ UNCHANGED inspect_pc
    /\ UNCHANGED <<fleet, recycle_concurrency, kv_instances, job, stopped_,
                 mtx_, pending_instance_queue_, pending_instance_map_,
                 working_instance_map_, scanner_pc, lease_pc, lease_instances,
                 worker_pc, worker_instance, worker_ret, checker_stopped,
                 stop_pc, now_ms, worker_ctime_ms, finish_log,
                 instance_filter_, scanner_instances, checkVars, invVars,
                 inspectVars, execVars>>

(***************************************************************************)
(* Check workers (checker_func)                                            *)
(***************************************************************************)
\* FetchInstance with the pop leaving the id in pending_instance_map_
FetchInstance_keeps_pending(p, w) ==
    /\ mtx_[p] = Unlocked
    /\ IF stopped(p)
       THEN /\ worker_pc' = [worker_pc EXCEPT ![p][w] = "done"]
            /\ UNCHANGED <<mtx_, pending_instance_queue_,
                           pending_instance_map_, worker_instance>>
       ELSE IF pending_instance_queue_[p] # << >>
       THEN LET instance == Head(pending_instance_queue_[p]) IN
            /\ worker_instance' =
                   [worker_instance EXCEPT ![p][w] = instance.instance_id]
            /\ pending_instance_queue_' =
                   [pending_instance_queue_ EXCEPT
                        ![p] = Tail(pending_instance_queue_[p])]
            /\ UNCHANGED pending_instance_map_
            /\ worker_pc' = [worker_pc EXCEPT ![p][w] = "recheck"]
            /\ UNCHANGED mtx_
       ELSE /\ mtx_' = [mtx_ EXCEPT ![p] = w]
            /\ worker_pc' = [worker_pc EXCEPT ![p][w] = "about_to_block"]
            /\ UNCHANGED <<pending_instance_queue_, pending_instance_map_,
                           worker_instance>>

\* FetchInstance with the pop taking the instance at the back of the queue
FetchInstance_pops_back(p, w) ==
    /\ mtx_[p] = Unlocked
    /\ IF stopped(p)
       THEN /\ worker_pc' = [worker_pc EXCEPT ![p][w] = "done"]
            /\ UNCHANGED <<mtx_, pending_instance_queue_,
                           pending_instance_map_, worker_instance>>
       ELSE IF pending_instance_queue_[p] # << >>
       THEN LET instance == pending_instance_queue_[p][Len(pending_instance_queue_[p])] IN
            /\ worker_instance' =
                   [worker_instance EXCEPT ![p][w] = instance.instance_id]
            /\ pending_instance_queue_' =
                   [pending_instance_queue_ EXCEPT
                        ![p] = SubSeq(pending_instance_queue_[p], 1,
                                      Len(pending_instance_queue_[p]) - 1)]
            /\ pending_instance_map_' =
                   [pending_instance_map_ EXCEPT
                        ![p] = pending_instance_map_[p] \ {instance.instance_id}]
            /\ worker_pc' = [worker_pc EXCEPT ![p][w] = "recheck"]
            /\ UNCHANGED mtx_
       ELSE /\ mtx_' = [mtx_ EXCEPT ![p] = w]
            /\ worker_pc' = [worker_pc EXCEPT ![p][w] = "about_to_block"]
            /\ UNCHANGED <<pending_instance_queue_, pending_instance_map_,
                           worker_instance>>

\* the block under mtx_ that fetches the instance to check: the predicate of
\* pending_instance_cond_.wait, then either the return on stopped(), the pop,
\* or the decision to block (mtx_ stays held until wait() releases it)
FetchInstance(p, w) ==
    /\ mtx_[p] = Unlocked
    /\ IF stopped(p)
       THEN /\ worker_pc' = [worker_pc EXCEPT ![p][w] = "done"]
            /\ UNCHANGED <<mtx_, pending_instance_queue_,
                           pending_instance_map_, worker_instance>>
       ELSE IF pending_instance_queue_[p] # << >>
       THEN LET instance == Head(pending_instance_queue_[p]) IN
            /\ worker_instance' =
                   [worker_instance EXCEPT ![p][w] = instance.instance_id]
            /\ pending_instance_queue_' =
                   [pending_instance_queue_ EXCEPT
                        ![p] = Tail(pending_instance_queue_[p])]
            /\ pending_instance_map_' =
                   [pending_instance_map_ EXCEPT
                        ![p] = pending_instance_map_[p] \ {instance.instance_id}]
            /\ worker_pc' = [worker_pc EXCEPT ![p][w] = "recheck"]
            /\ UNCHANGED mtx_
       ELSE /\ mtx_' = [mtx_ EXCEPT ![p] = w]
            /\ worker_pc' = [worker_pc EXCEPT ![p][w] = "about_to_block"]
            /\ UNCHANGED <<pending_instance_queue_, pending_instance_map_,
                           worker_instance>>

\* the loop head: while (!stopped()) reads the flag with no lock and leaves
\* the loop when it is set; else the thread takes mtx_ and fetches
WorkerFetch(p, w) ==
    /\ worker_pc[p][w] = "fetch"
    /\ IF stopped(p)
       THEN /\ worker_pc' = [worker_pc EXCEPT ![p][w] = "done"]
            /\ UNCHANGED <<mtx_, pending_instance_queue_,
                           pending_instance_map_, worker_instance>>
       ELSE FetchInstance(p, w)
    /\ UNCHANGED <<fleet, recycle_concurrency, kv_instances, job, stopped_,
                 working_instance_map_, scanner_pc, lease_pc, lease_instances,
                 inspect_pc, worker_ret, checker_stopped, stop_pc, now_ms,
                 worker_ctime_ms, finish_log, instance_filter_,
                 scanner_instances, checkVars, invVars, inspectVars, execVars>>

\* a notified worker inside pending_instance_cond_.wait: it takes mtx_ again
\* and evaluates the predicate again
WorkerWake(p, w) ==
    /\ worker_pc[p][w] = "woken"
    /\ FetchInstance(p, w)
    /\ UNCHANGED <<fleet, recycle_concurrency, kv_instances, job, stopped_,
                 working_instance_map_, scanner_pc, lease_pc, lease_instances,
                 inspect_pc, worker_ret, checker_stopped, stop_pc, now_ms,
                 worker_ctime_ms, finish_log, instance_filter_,
                 scanner_instances, checkVars, invVars, inspectVars, execVars>>

\* condition_variable::wait: release mtx_ and block until notified
WorkerBlock(p, w) ==
    /\ worker_pc[p][w] = "about_to_block"
    /\ mtx_[p] = w
    /\ mtx_' = [mtx_ EXCEPT ![p] = Unlocked]
    /\ worker_pc' = [worker_pc EXCEPT ![p][w] = "blocked"]
    /\ UNCHANGED <<fleet, recycle_concurrency, kv_instances, job, stopped_,
                 pending_instance_queue_, pending_instance_map_,
                 working_instance_map_, scanner_pc, lease_pc, lease_instances,
                 inspect_pc, worker_instance, worker_ret, checker_stopped,
                 stop_pc, now_ms, worker_ctime_ms, finish_log,
                 instance_filter_, scanner_instances, checkVars, invVars,
                 inspectVars, execVars>>

\* under mtx_: skip an instance that is in the working map; else make a checker
WorkerRecheck(p, w) ==
    /\ worker_pc[p][w] = "recheck"
    /\ mtx_[p] = Unlocked
    /\ IF worker_instance[p][w] \in DOMAIN working_instance_map_[p]
       THEN /\ worker_pc' = [worker_pc EXCEPT ![p][w] = "fetch"]
            /\ worker_instance' = [worker_instance EXCEPT ![p][w] = NoInstance]
            /\ UNCHANGED checker_stopped
       ELSE /\ worker_pc' = [worker_pc EXCEPT ![p][w] = "prepare"]
            /\ checker_stopped' = [checker_stopped EXCEPT ![p][w] = FALSE]
            /\ UNCHANGED worker_instance
    /\ UNCHANGED <<fleet, recycle_concurrency, kv_instances, job, stopped_,
                 mtx_, pending_instance_queue_, pending_instance_map_,
                 working_instance_map_, scanner_pc, lease_pc, lease_instances,
                 inspect_pc, worker_ret, stop_pc, now_ms, worker_ctime_ms,
                 finish_log, instance_filter_, scanner_instances, checkVars,
                 invVars, inspectVars, execVars>>

\* WorkerPrepare with `if (ret < 0) continue`: a rejected prepare (ret == 1)
\* goes on as a successful one
WorkerPrepare_continues_on_error_only(p, w) ==
    /\ worker_pc[p][w] = "prepare"
    /\ \E init_ok \in BOOLEAN, txn_ok \in BOOLEAN :
         LET i == worker_instance[p][w]
             r == prepare_instance_recycle_job(job[i], p,
                      check_object_interval_ms, txn_ok) IN
         IF ~init_ok
         THEN /\ worker_pc' = [worker_pc EXCEPT ![p][w] = "fetch"]
              /\ worker_instance' = [worker_instance EXCEPT ![p][w] = NoInstance]
              /\ UNCHANGED job
         ELSE /\ job' = [job EXCEPT ![i] = r.rec]
              /\ worker_pc' = [worker_pc EXCEPT ![p][w] =
                                  IF r.ret < 0 THEN "fetch" ELSE "emplace"]
              /\ worker_instance' = [worker_instance EXCEPT ![p][w] =
                                  IF r.ret < 0 THEN NoInstance ELSE i]
    /\ UNCHANGED <<fleet, recycle_concurrency, kv_instances, stopped_, mtx_,
                 pending_instance_queue_, pending_instance_map_,
                 working_instance_map_, scanner_pc, lease_pc, lease_instances,
                 inspect_pc, worker_ret, checker_stopped, stop_pc, now_ms,
                 worker_ctime_ms, finish_log, instance_filter_,
                 scanner_instances, checkVars, invVars, inspectVars, execVars>>

\* WorkerPrepare without `if (ret != 0) continue`
WorkerPrepare_ignores_ret(p, w) ==
    /\ worker_pc[p][w] = "prepare"
    /\ \E init_ok \in BOOLEAN, txn_ok \in BOOLEAN :
         LET i == worker_instance[p][w]
             r == prepare_instance_recycle_job(job[i], p,
                      check_object_interval_ms, txn_ok) IN
         IF ~init_ok
         THEN /\ worker_pc' = [worker_pc EXCEPT ![p][w] = "fetch"]
              /\ worker_instance' = [worker_instance EXCEPT ![p][w] = NoInstance]
              /\ UNCHANGED job
         ELSE /\ job' = [job EXCEPT ![i] = r.rec]
              /\ worker_pc' = [worker_pc EXCEPT ![p][w] = "emplace"]
              /\ UNCHANGED worker_instance
    /\ UNCHANGED <<fleet, recycle_concurrency, kv_instances, stopped_, mtx_,
                 pending_instance_queue_, pending_instance_map_,
                 working_instance_map_, scanner_pc, lease_pc, lease_instances,
                 inspect_pc, worker_ret, checker_stopped, stop_pc, now_ms,
                 worker_ctime_ms, finish_log, instance_filter_,
                 scanner_instances, checkVars, invVars, inspectVars, execVars>>

\* checker->init, then prepare_instance_recycle_job; a failure of either
\* continues the loop
WorkerPrepare(p, w) ==
    /\ worker_pc[p][w] = "prepare"
    /\ \E init_ok \in BOOLEAN, txn_ok \in BOOLEAN :
         LET i == worker_instance[p][w]
             r == prepare_instance_recycle_job(job[i], p,
                      check_object_interval_ms, txn_ok) IN
         IF ~init_ok
         THEN /\ worker_pc' = [worker_pc EXCEPT ![p][w] = "fetch"]
              /\ worker_instance' = [worker_instance EXCEPT ![p][w] = NoInstance]
              /\ UNCHANGED job
         ELSE /\ job' = [job EXCEPT ![i] = r.rec]
              /\ worker_pc' = [worker_pc EXCEPT ![p][w] =
                                  IF r.ret # 0 THEN "fetch" ELSE "emplace"]
              /\ worker_instance' = [worker_instance EXCEPT ![p][w] =
                                  IF r.ret # 0 THEN NoInstance ELSE i]
    /\ UNCHANGED <<fleet, recycle_concurrency, kv_instances, stopped_, mtx_,
                 pending_instance_queue_, pending_instance_map_,
                 working_instance_map_, scanner_pc, lease_pc, lease_instances,
                 inspect_pc, worker_ret, checker_stopped, stop_pc, now_ms,
                 worker_ctime_ms, finish_log, instance_filter_,
                 scanner_instances, checkVars, invVars, inspectVars, execVars>>

\* under mtx_: working_instance_map_.emplace(instance_id, checker)
WorkerEmplace(p, w) ==
    /\ worker_pc[p][w] = "emplace"
    /\ mtx_[p] = Unlocked
    /\ working_instance_map_' =
           [working_instance_map_ EXCEPT
                ![p] = emplace(working_instance_map_[p], worker_instance[p][w], w)]
    /\ worker_pc' = [worker_pc EXCEPT ![p][w] = "begin_check"]
    /\ UNCHANGED <<fleet, recycle_concurrency, kv_instances, job, stopped_,
                 mtx_, pending_instance_queue_, pending_instance_map_,
                 scanner_pc, lease_pc, lease_instances, inspect_pc,
                 worker_instance, worker_ret, checker_stopped, stop_pc,
                 now_ms, worker_ctime_ms, finish_log, instance_filter_,
                 scanner_instances, checkVars, invVars, inspectVars, execVars>>

\* if (stopped()) return; ctime_ms is read from the clock
WorkerBeginCheck(p, w) ==
    /\ worker_pc[p][w] = "begin_check"
    /\ worker_pc' = [worker_pc EXCEPT ![p][w] =
                        IF stopped(p) THEN "done" ELSE "checking"]
    /\ worker_ctime_ms' = [worker_ctime_ms EXCEPT ![p][w] =
                              IF stopped(p) THEN @ ELSE now_ms]
    /\ UNCHANGED <<fleet, recycle_concurrency, kv_instances, job, stopped_,
                 mtx_, pending_instance_queue_, pending_instance_map_,
                 working_instance_map_, scanner_pc, lease_pc, lease_instances,
                 inspect_pc, worker_instance, worker_ret, checker_stopped,
                 stop_pc, now_ms, finish_log, instance_filter_,
                 scanner_instances, checkVars, invVars, inspectVars, execVars>>

\* the value `ret` holds after do_check and the optional do_inverted_check
check_result(forward, inverted_enabled, inverted) ==
    IF inverted_enabled /\ inverted # 0 THEN -1 ELSE forward

\* the values `ret` may hold: do_check returns `forward`; with
\* config::enable_inverted_check, do_inverted_check returns `inverted`
CheckResults ==
    {check_result(forward, enable_inverted_check, inverted) :
         forward \in DoCheckResults, enable_inverted_check \in BOOLEAN,
         inverted \in {0, -1}}

\* std::terminate: every thread of the process ends where it is and its
\* locals go with it; the process is no longer one of the fleet.  No
\* destructor runs: the members of the Checker are left as they were
terminate(p) ==
    /\ fleet' = fleet \ {p}
    /\ scanner_pc' = [scanner_pc EXCEPT ![p] = "aborted"]
    /\ scanner_instances' = [scanner_instances EXCEPT ![p] = << >>]
    /\ lease_pc' = [lease_pc EXCEPT ![p] = "aborted"]
    /\ lease_instances' = [lease_instances EXCEPT ![p] = << >>]
    /\ inspect_pc' = [inspect_pc EXCEPT ![p] = "aborted"]
    /\ stop_pc' = [stop_pc EXCEPT ![p] = "aborted"]
    /\ worker_pc' = [worker_pc EXCEPT ![p] =
                        [w \in Workers |->
                            IF worker_pc[p][w] = "off" THEN "off" ELSE "aborted"]]
    /\ worker_instance' = [worker_instance EXCEPT ![p] =
                              [w \in Workers |-> NoInstance]]
    /\ worker_ret' = [worker_ret EXCEPT ![p] = [w \in Workers |-> 0]]
    /\ worker_ctime_ms' = [worker_ctime_ms EXCEPT ![p] = [w \in Workers |-> 0]]
    /\ finish_log' = [finish_log EXCEPT ![p] = [w \in Workers |-> NoFinish]]

\* checker->do_check() and, with enable_inverted_check, do_inverted_check()
\* run to their end; if (ret == -1) return.  Or do_check throws
\* std::bad_optional_access (storage_vault.value() on the empty optional of
\* the tablet cache, for a rowset of tablet_id 0): checker_func catches
\* nothing and the process is terminated
WorkerCheck(p, w) ==
    /\ worker_pc[p][w] = "checking"
    /\ \/ \E ret \in CheckResults :
            /\ worker_ret' = [worker_ret EXCEPT ![p][w] = ret]
            /\ worker_pc' = [worker_pc EXCEPT ![p][w] =
                                IF ret = -1 THEN "done" ELSE "finish"]
            /\ UNCHANGED <<fleet, scanner_pc, scanner_instances, lease_pc,
                           lease_instances, inspect_pc, stop_pc,
                           worker_instance, worker_ctime_ms, finish_log>>
       \/ terminate(p)
    /\ UNCHANGED <<recycle_concurrency, kv_instances, job, stopped_, mtx_,
                 pending_instance_queue_, pending_instance_map_,
                 working_instance_map_, checker_stopped, now_ms,
                 instance_filter_, checkVars, invVars, inspectVars, execVars>>

\* WorkerFinish reporting success for every ret that reaches the call
WorkerFinish_always_success(p, w) ==
    /\ worker_pc[p][w] = "finish"
    /\ \E txn_ok \in BOOLEAN :
         job' = IF checker_stopped[p][w] THEN job
                ELSE [job EXCEPT ![worker_instance[p][w]] =
                         finish_instance_recycle_job(@, p, TRUE, txn_ok)]
    /\ finish_log' = IF checker_stopped[p][w] THEN finish_log
                     ELSE [finish_log EXCEPT ![p][w] =
                              FinishCall(TRUE, worker_ctime_ms[p][w])]
    /\ worker_pc' = [worker_pc EXCEPT ![p][w] = "erase"]
    /\ UNCHANGED <<fleet, recycle_concurrency, kv_instances, stopped_, mtx_,
                 pending_instance_queue_, pending_instance_map_,
                 working_instance_map_, scanner_pc, lease_pc, lease_instances,
                 inspect_pc, worker_instance, worker_ret, checker_stopped,
                 stop_pc, now_ms, worker_ctime_ms, instance_filter_,
                 scanner_instances, checkVars, invVars, inspectVars, execVars>>

\* WorkerFinish without the test of checker->stopped()
WorkerFinish_ignores_stopped(p, w) ==
    /\ worker_pc[p][w] = "finish"
    /\ \E txn_ok \in BOOLEAN :
         job' = [job EXCEPT ![worker_instance[p][w]] =
                    finish_instance_recycle_job(@, p, worker_ret[p][w] = 0,
                                                txn_ok)]
    /\ finish_log' = [finish_log EXCEPT ![p][w] =
                          FinishCall(worker_ret[p][w] = 0, worker_ctime_ms[p][w])]
    /\ worker_pc' = [worker_pc EXCEPT ![p][w] = "erase"]
    /\ UNCHANGED <<fleet, recycle_concurrency, kv_instances, stopped_, mtx_,
                 pending_instance_queue_, pending_instance_map_,
                 working_instance_map_, scanner_pc, lease_pc, lease_instances,
                 inspect_pc, worker_instance, worker_ret, checker_stopped,
                 stop_pc, now_ms, worker_ctime_ms, instance_filter_,
                 scanner_instances, checkVars, invVars, inspectVars, execVars>>

\* if (!checker->stopped()) finish_instance_recycle_job(..., ret == 0, ctime_ms)
WorkerFinish(p, w) ==
    /\ worker_pc[p][w] = "finish"
    /\ \E txn_ok \in BOOLEAN :
         job' = IF checker_stopped[p][w] THEN job
                ELSE [job EXCEPT ![worker_instance[p][w]] =
                         finish_instance_recycle_job(@, p, worker_ret[p][w] = 0,
                                                     txn_ok)]
    /\ finish_log' = IF checker_stopped[p][w] THEN finish_log
                     ELSE [finish_log EXCEPT ![p][w] =
                              FinishCall(worker_ret[p][w] = 0,
                                         worker_ctime_ms[p][w])]
    /\ worker_pc' = [worker_pc EXCEPT ![p][w] = "erase"]
    /\ UNCHANGED <<fleet, recycle_concurrency, kv_instances, stopped_, mtx_,
                 pending_instance_queue_, pending_instance_map_,
                 working_instance_map_, scanner_pc, lease_pc, lease_instances,
                 inspect_pc, worker_instance, worker_ret, checker_stopped,
                 stop_pc, now_ms, worker_ctime_ms, instance_filter_,
                 scanner_instances, checkVars, invVars, inspectVars, execVars>>

\* under mtx_: working_instance_map_.erase(instance_id)
WorkerErase(p, w) ==
    /\ worker_pc[p][w] = "erase"
    /\ mtx_[p] = Unlocked
    /\ working_instance_map_' =
           [working_instance_map_ EXCEPT
                ![p] = erase(working_instance_map_[p], worker_instance[p][w])]
    /\ worker_pc' = [worker_pc EXCEPT ![p][w] = "fetch"]
    /\ worker_instance' = [worker_instance EXCEPT ![p][w] = NoInstance]
    /\ worker_ret' = [worker_ret EXCEPT ![p][w] = 0]
    /\ checker_stopped' = [checker_stopped EXCEPT ![p][w] = FALSE]
    /\ worker_ctime_ms' = [worker_ctime_ms EXCEPT ![p][w] = 0]
    /\ finish_log' = [finish_log EXCEPT ![p][w] = NoFinish]
    /\ UNCHANGED <<fleet, recycle_concurrency, kv_instances, job, stopped_,
                 mtx_, pending_instance_queue_, pending_instance_map_,
                 scanner_pc, lease_pc, lease_instances, inspect_pc, stop_pc,
                 now_ms, instance_filter_, scanner_instances, checkVars,
                 invVars, inspectVars, execVars>>

(***************************************************************************)
(* Checker::stop                                                           *)
(***************************************************************************)
\* stopped_ = true; notifier_.notify_all(); pending_instance_cond_.notify_all()
\* (none of the three takes mtx_)
StopNotify(p) ==
    /\ stop_pc[p] = "running"
    /\ stopped_' = [stopped_ EXCEPT ![p] = TRUE]
    /\ worker_pc' = [worker_pc EXCEPT ![p] = notify_all(worker_pc[p])]
    /\ stop_pc' = [stop_pc EXCEPT ![p] = "stop_checkers"]
    /\ UNCHANGED <<fleet, recycle_concurrency, kv_instances, job, mtx_,
                 pending_instance_queue_, pending_instance_map_,
                 working_instance_map_, scanner_pc, lease_pc, lease_instances,
                 inspect_pc, worker_instance, worker_ret, checker_stopped,
                 now_ms, worker_ctime_ms, finish_log, instance_filter_,
                 scanner_instances, checkVars, invVars, inspectVars, execVars>>

\* under mtx_: checker->stop() for every entry of working_instance_map_
StopCheckers(p) ==
    /\ stop_pc[p] = "stop_checkers"
    /\ mtx_[p] = Unlocked
    /\ checker_stopped' =
           [checker_stopped EXCEPT ![p] =
               [w \in Workers |->
                   IF \E i \in DOMAIN working_instance_map_[p] :
                          working_instance_map_[p][i] = w
                   THEN TRUE ELSE checker_stopped[p][w]]]
    /\ stop_pc' = [stop_pc EXCEPT ![p] = "join"]
    /\ UNCHANGED <<fleet, recycle_concurrency, kv_instances, job, stopped_,
                 mtx_, pending_instance_queue_, pending_instance_map_,
                 working_instance_map_, scanner_pc, lease_pc, lease_instances,
                 inspect_pc, worker_pc, worker_instance, worker_ret, now_ms,
                 worker_ctime_ms, finish_log, instance_filter_,
                 scanner_instances, checkVars, invVars, inspectVars, execVars>>

\* every thread of workers_ has returned
AllExited(p) ==
    /\ scanner_pc[p] = "done"
    /\ lease_pc[p] = "done"
    /\ inspect_pc[p] = "done"
    /\ \A w \in Workers : worker_pc[p][w] \in {"done", "off"}

\* for (auto& w : workers_) w.join()
StopJoin(p) ==
    /\ stop_pc[p] = "join"
    /\ AllExited(p)
    /\ stop_pc' = [stop_pc EXCEPT ![p] = "joined"]
    /\ UNCHANGED <<fleet, recycle_concurrency, kv_instances, job, stopped_,
                 mtx_, pending_instance_queue_, pending_instance_map_,
                 working_instance_map_, scanner_pc, lease_pc, lease_instances,
                 inspect_pc, worker_pc, worker_instance, worker_ret,
                 checker_stopped, now_ms, worker_ctime_ms, finish_log,
                 instance_filter_, scanner_instances, checkVars, invVars,
                 inspectVars, execVars>>

(***************************************************************************)
(* The clock                                                               *)
(***************************************************************************)
\* one unit of time passes: every unexpired lease is one unit closer to its
\* expiration.  Leases are held relative to the clock, and the specifications
\* that use Tick read no time stamp: now_ms stays as it is
Tick ==
    /\ \E i \in InstanceIds : unexpired(job[i])
    /\ job' = [i \in InstanceIds |->
                  IF unexpired(job[i])
                  THEN [job[i] EXCEPT !.lease_left_ms = @ - 1] ELSE job[i]]
    /\ UNCHANGED <<fleet, recycle_concurrency, kv_instances, stopped_, mtx_,
                 pending_instance_queue_, pending_instance_map_,
                 working_instance_map_, scanner_pc, lease_pc, lease_instances,
                 inspect_pc, worker_pc, worker_instance, worker_ret,
                 checker_stopped, stop_pc, now_ms, worker_ctime_ms,
                 finish_log, instance_filter_, scanner_instances, checkVars,
                 invVars, inspectVars, execVars>>

\* one unit of time passes and the clock shows it, up to MaxClock
TickClock ==
    /\ now_ms < MaxClock
    /\ now_ms' = now_ms + 1
    /\ job' = [i \in InstanceIds |->
                  IF unexpired(job[i])
                  THEN [job[i] EXCEPT !.lease_left_ms = @ - 1] ELSE job[i]]
    /\ UNCHANGED <<fleet, recycle_concurrency, kv_instances, stopped_, mtx_,
                 pending_instance_queue_, pending_instance_map_,
                 working_instance_map_, scanner_pc, lease_pc, lease_instances,
                 inspect_pc, worker_pc, worker_instance, worker_ret,
                 checker_stopped, stop_pc, worker_ctime_ms, finish_log,
                 instance_filter_, scanner_instances, checkVars, invVars,
                 inspectVars, execVars>>

(***************************************************************************)
(* Claims about the daemon and the job-lease protocol                      *)
(***************************************************************************)
\* a thread of process p takes a step
DaemonStep(p) ==
    \/ ScannerExit(p) \/ ScannerList(p) \/ ScannerEnqueue(p)
    \/ LeaseExit(p) \/ LeaseReserve(p) \/ LeaseSnapshot(p) \/ LeaseRenew(p)
    \/ LeaseStop(p)
    \/ InspectExit(p) \/ InspectInstances(p)
    \/ \E w \in Workers :
          \/ WorkerFetch(p, w) \/ WorkerWake(p, w) \/ WorkerBlock(p, w)
          \/ WorkerRecheck(p, w)
          \/ WorkerPrepare(p, w) \/ WorkerEmplace(p, w)
          \/ WorkerBeginCheck(p, w) \/ WorkerCheck(p, w)
          \/ WorkerFinish(p, w) \/ WorkerErase(p, w)
    \/ StopNotify(p) \/ StopCheckers(p) \/ StopJoin(p)

\* worker w of p pops an instance in this step
Pops(p, w) ==
    worker_pc[p][w] \in {"fetch", "woken"} /\ worker_pc'[p][w] = "recheck"

\* the job record is held by a process other than q: BUSY, lease unexpired
HeldByOther(rec, q) ==
    /\ rec.present
    /\ rec.lessee # q
    /\ rec.status = "BUSY"
    /\ rec.lease_left_ms > 0

\* the processes whose worker is executing a check of instance i
Checking(i) ==
    {p \in fleet : \E w \in Workers : /\ worker_pc[p][w] = "checking"
                                      /\ worker_instance[p][w] = i}

\* C1 (as claimed): in every reachable state of one daemon no instance id is
\* a key of both the pending set and the working set.
C1_PendingWorkingDisjoint ==
    \A p \in fleet :
        pending_instance_map_[p] \cap DOMAIN working_instance_map_[p] = {}

\* C1 (amended): a worker's pop removes the popped id from the pending set,
\* and only the scanner's enqueue adds an id to the pending set; so an id is
\* a key of both sets only after the scanner enqueued it again while it was
\* claimed or being checked.
C1_PopLeavesPending ==
    [][ /\ \A p \in fleet, w \in Workers :
              Pops(p, w) => worker_instance'[p][w] \notin pending_instance_map_'[p]
        /\ \/ \E p \in fleet : ScannerEnqueue(p)
           \/ \A p \in fleet :
                  pending_instance_map_'[p] \subseteq pending_instance_map_[p]
      ]_vars

\* C1 witness: a worker has just popped an instance another worker is
\* checking, and the id is in the working set but no longer pending.
C1_Witness ==
    \E p \in fleet, w \in Workers :
        /\ worker_pc[p][w] = "recheck"
        /\ worker_instance[p][w] \in DOMAIN working_instance_map_[p]
        /\ worker_instance[p][w] \notin pending_instance_map_[p]

\* C2: a prepare of process q succeeds (its worker goes on to record the
\* working entry) only when the job record is not held by another process,
\* that is unless the other owner's lease has expired or it called finish;
\* the record then names q as the one lessee, BUSY and unexpired.
C2_PrepareExclusive ==
    [][ \A q \in fleet, w \in Workers :
            (worker_pc[q][w] = "prepare" /\ worker_pc'[q][w] = "emplace")
            => /\ ~HeldByOther(job[worker_instance[q][w]], q)
               /\ job'[worker_instance[q][w]].lessee = q
               /\ job'[worker_instance[q][w]].status = "BUSY"
               /\ job'[worker_instance[q][w]].lease_left_ms > 0
      ]_vars

\* C2 witness: Q's prepare has succeeded on the instance P prepared before
\* and has not finished: P's lease had expired.
C2_Witness ==
    /\ worker_pc["Q"][1] = "emplace"
    /\ worker_pc["P"][1] \in {"checking", "finish"}
    /\ worker_instance["P"][1] = worker_instance["Q"][1]
    /\ job[worker_instance["Q"][1]].lessee = "Q"

\* C3 (as claimed): at no instant are two processes of the fleet both
\* executing a check of the same instance.
C3_OneActiveChecker ==
    \A i \in InstanceIds : Cardinality(Checking(i)) <= 1

\* process p has a run on instance i: a prepare of p on i succeeded and its
\* worker has not reached the finish call of that run (a worker that returned
\* at `if (ret == -1) return;` or `if (stopped()) return;` never calls it)
InRun(p, i) ==
    \E w \in Workers :
        /\ worker_instance[p][w] = i
        /\ worker_pc[p][w] \in {"emplace", "begin_check", "checking",
                                "finish", "done"}

\* C4: while process p has a run on an instance (its prepare succeeded, it
\* has not called finish) and the record still carries p's lease, every step
\* in which a worker of another process q returns from prepare on that
\* instance is a rejection as long as the lease is unexpired: q continues its
\* loop and the record is left alone.  Once p's lease expiration has passed
\* without a renewal, q's prepare can succeed, and when it does the record
\* names q as lessee, BUSY, with a fresh lease.
C4_LeaseSteal ==
    [][ \A p \in fleet, q \in fleet, w \in Workers :
          LET i == worker_instance[q][w] IN
          (/\ p # q
           /\ worker_pc[q][w] = "prepare"
           /\ InRun(p, i)
           /\ job[i].present
           /\ job[i].lessee = p)
          => /\ (unexpired(job[i]) /\ worker_pc'[q][w] \in {"fetch", "emplace"})
                   => /\ worker_pc'[q][w] = "fetch"
                      /\ worker_instance'[q][w] = NoInstance
                      /\ job'[i] = job[i]
             /\ ~unexpired(job[i])
                   => /\ ENABLED (WorkerPrepare(q, w)
                                     /\ worker_pc'[q][w] = "emplace")
                      /\ worker_pc'[q][w] = "emplace"
                            => /\ worker_instance'[q][w] = i
                               /\ job'[i] = [present |-> TRUE,
                                             lessee |-> q,
                                             lease_left_ms |->
                                                 check_object_interval_ms,
                                             status |-> "BUSY"]
      ]_vars

\* C4 witness: P prepared the instance and is still checking it; its lease
\* ran out and Q's prepare has just succeeded: the record carries Q's fresh
\* lease.
C4_Witness ==
    /\ worker_pc["Q"][1] = "emplace"
    /\ worker_pc["P"][1] = "checking"
    /\ worker_instance["P"][1] = worker_instance["Q"][1]
    /\ job[worker_instance["Q"][1]] = [present |-> TRUE,
                                       lessee |-> "Q",
                                       lease_left_ms |-> check_object_interval_ms,
                                       status |-> "BUSY"]

\* C5 (as claimed): once stop() has set the flag and notified, the shutdown
\* goes on until the joins complete: as long as stop() has not returned,
\* some thread of the process can take a step.
C5_StopCompletes ==
    \A p \in fleet :
        stop_pc[p] \in {"stop_checkers", "join"} => ENABLED DaemonStep(p)

\* C13: in every reachable state of a daemon the keys of the pending set are
\* the instance ids in the pending queue, and no instance id occurs more than
\* once in the pending queue.
C13_PendingSetIsQueue ==
    \A p \in fleet :
        /\ pending_instance_map_[p] = QueueIds(pending_instance_queue_[p])
        /\ \A a, b \in DOMAIN pending_instance_queue_[p] :
               a # b => pending_instance_queue_[p][a].instance_id
                            # pending_instance_queue_[p][b].instance_id

\* C13 witness: i1 was popped and is in the working set, and the scanner has
\* enqueued it again behind i2.
C13_Witness ==
    /\ Len(pending_instance_queue_["P"]) = 2
    /\ pending_instance_queue_["P"][1].instance_id = "i2"
    /\ pending_instance_queue_["P"][2].instance_id = "i1"
    /\ pending_instance_map_["P"] = {"i1", "i2"}
    /\ "i1" \in DOMAIN working_instance_map_["P"]

\* worker w of p is between its successful prepare and the end of its check
\* of instance i, the erase of the working entry included
InCheck(p, w, i) ==
    /\ worker_instance[p][w] = i
    /\ worker_pc[p][w] \in {"begin_check", "checking", "finish", "erase"}

\* C14 (as claimed): every entry of the working set of a daemon that has not
\* been told to stop belongs to a worker that is between a successful prepare
\* and the completion of its check: no entry outlives its worker's check.
C14_EntryRemoved ==
    \A p \in fleet :
        ~stopped(p) =>
            \A i \in DOMAIN working_instance_map_[p] :
                InCheck(p, working_instance_map_[p][i], i)

\* a check of instance i by a worker of p has ended with -1: the worker has
\* returned from checker_func though the daemon was not told to stop
EndedWithFailure(p, i) ==
    /\ ~stopped(p)
    /\ \E w \in Workers : /\ worker_pc[p][w] = "done"
                          /\ worker_instance[p][w] = i
                          /\ worker_ret[p][w] = -1

\* C15 (as claimed): once a check of an instance has ended with -1, the
\* process no longer renews the lease for that instance: a snapshot the lease
\* thread takes from then on does not hold the instance, so no lease call
\* for it follows and the lease runs out.
C15_NoRenewalAfterFailure ==
    [][ \A p \in fleet, i \in InstanceIds :
            (EndedWithFailure(p, i) /\ LeaseSnapshot(p))
                => i \notin Range(lease_instances'[p])
      ]_vars

\* C16: a worker calls finish if and only if its check result ret is not -1
\* and the stop flag of its checker is not set at the test that follows the
\* check; the success argument is true exactly when ret = 0 (ret = -2 gives
\* success = false) and the ctime argument is the reading of the clock taken
\* before the check started.  (Stated of the processes that run after the
\* step: a check that throws has no result and its process makes no call.)
C16_FinishCall ==
    [][ \A p \in fleet', w \in Workers :
          /\ (worker_pc[p][w] = "begin_check" /\ worker_pc'[p][w] = "checking")
                => worker_ctime_ms'[p][w] = now_ms
          /\ worker_pc[p][w] \in {"checking", "finish"}
                => worker_ctime_ms'[p][w] = worker_ctime_ms[p][w]
          /\ (worker_pc[p][w] = "checking" /\ worker_pc'[p][w] # "checking")
                => /\ ~finish_log'[p][w].called
                   /\ worker_ret'[p][w] = -1 <=> worker_pc'[p][w] = "done"
                   /\ worker_ret'[p][w] # -1 <=> worker_pc'[p][w] = "finish"
          /\ (worker_pc[p][w] = "finish" /\ worker_pc'[p][w] # "finish")
                => /\ finish_log'[p][w].called <=> ~checker_stopped[p][w]
                   /\ finish_log'[p][w].called
                         => /\ finish_log'[p][w].success = (worker_ret[p][w] = 0)
                            /\ finish_log'[p][w].ctime_ms = worker_ctime_ms[p][w]
          /\ (finish_log'[p][w].called /\ ~finish_log[p][w].called)
                => /\ worker_pc[p][w] = "finish"
                   /\ worker_ret[p][w] # -1
      ]_vars

\* C16 witness: a check that started at time 1 returned -2, its checker was
\* not stopped, and at time 2 the worker has called finish(success = false,
\* ctime_ms = 1).
C16_Witness ==
    /\ worker_pc["P"][1] = "erase"
    /\ worker_ret["P"][1] = -2
    /\ ~checker_stopped["P"][1]
    /\ now_ms = 2
    /\ finish_log["P"][1] = FinishCall(FALSE, 1)

\* the check workers of p whose thread has not returned from checker_func
LiveWorkers(p) == {w \in Workers : worker_pc[p][w] \notin {"done", "off"}}

\* C18 (as claimed): as long as the daemon's stop flag is not set, the number
\* of live check workers is recycle_concurrency: no worker has left its loop.
C18_WorkersStayAlive ==
    \A p \in fleet :
        ~stopped(p) => Cardinality(LiveWorkers(p)) = recycle_concurrency

\* C19: when the lease call for an instance returned 1 and the working set
\* holds the instance, the lease thread sets the stop flag of the checker the
\* working set holds for it; and a stop flag that is set before the worker's
\* test after the check stays set through that test, and the worker calls no
\* finish for that run.  (Stated of the processes that run after the step.)
C19_LeaseLostNoFinish ==
    [][ \A p \in fleet' :
          /\ (/\ lease_pc[p] = "lease_stop" /\ lease_pc'[p] # "lease_stop"
              /\ Head(lease_instances[p]) \in DOMAIN working_instance_map_[p])
                => checker_stopped'[p][working_instance_map_[p][
                                          Head(lease_instances[p])]]
          /\ \A w \in Workers :
                (/\ checker_stopped[p][w]
                 /\ worker_pc[p][w] \in {"begin_check", "checking", "finish"})
                    => /\ checker_stopped'[p][w]
                       /\ ~finish_log'[p][w].called
      ]_vars

\* C19 witness: the daemon was not told to stop; the lease thread stopped the
\* checker of a run whose check then returned 0, and the worker has passed
\* the test after the check without calling finish: the record is still BUSY.
C19_Witness ==
    /\ stop_pc["P"] = "running"
    /\ worker_pc["P"][1] = "erase"
    /\ worker_ret["P"][1] = 0
    /\ checker_stopped["P"][1]
    /\ ~finish_log["P"][1].called
    /\ job[worker_instance["P"][1]].status = "BUSY"

\* a thread of p takes a step that reads or writes the pending queue, the
\* pending set or the working set
AccessesSharedSets(p) ==
    \/ ScannerEnqueue(p)
    \/ LeaseReserve(p) \/ LeaseSnapshot(p) \/ LeaseStop(p)
    \/ \E w \in Workers :
          \/ (~stopped(p) /\ WorkerFetch(p, w)) \/ WorkerWake(p, w)
          \/ WorkerRecheck(p, w)
          \/ WorkerEmplace(p, w) \/ WorkerErase(p, w)
    \/ StopCheckers(p)

\* C20 (as claimed): every read or write of the pending queue, the pending
\* set and the working set is made by a thread that holds the daemon's
\* mutex: while one thread holds the mutex, no thread can take a step that
\* reads or writes them.
C20_MutexProtects ==
    \A p \in fleet :
        mtx_[p] # Unlocked => ~ENABLED AccessesSharedSets(p)

\* the id passes the filter: with a whitelist it is on it, without one it
\* is not on the blacklist
PassesFilter(id) ==
    IF instance_filter_.whitelist # {}
    THEN id \in instance_filter_.whitelist
    ELSE id \notin instance_filter_.blacklist

\* the instance the scan listed under the id may be checked
Eligible(id) ==
    /\ PassesFilter(id)
    /\ \E k \in DOMAIN kv_instances : /\ kv_instances[k].instance_id = id
                                      /\ kv_instances[k].status # "DELETED"

\* C25: a scan cycle enqueues an instance only if its id passes the filter,
\* its status is not DELETED and its id is not in the pending set; so every
\* instance in the pending queue, every instance a worker has popped, every
\* instance with a job record and every instance in the working set passed
\* the filter and is not DELETED.
C25_OnlyEligibleEnqueued ==
    [][\A p \in fleet :
         /\ \A k \in (Len(pending_instance_queue_[p]) + 1)
                       ..Len(pending_instance_queue_'[p]) :
               LET instance == pending_instance_queue_'[p][k] IN
               /\ PassesFilter(instance.instance_id)
               /\ instance.status # "DELETED"
               /\ instance.instance_id \notin pending_instance_map_[p]
               /\ instance \in Range(kv_instances)
         /\ \A k \in DOMAIN pending_instance_queue_'[p] :
               Eligible(pending_instance_queue_'[p][k].instance_id)
         /\ \A id \in pending_instance_map_'[p] : Eligible(id)
         /\ \A w \in Workers :
               worker_instance'[p][w] # NoInstance
                   => Eligible(worker_instance'[p][w])
         /\ \A id \in DOMAIN working_instance_map_'[p] : Eligible(id)
         /\ \A id \in InstanceIds : job'[id].present => Eligible(id)
      ]_vars

\* C25 witness: with a whitelist naming a DELETED instance and a live one,
\* a worker is checking the live one and nothing else is pending.
C25_Witness ==
    /\ instance_filter_.whitelist = {"i1", "i3"}
    /\ \E w \in Workers : /\ worker_pc["P"][w] = "checking"
                          /\ worker_instance["P"][w] = "i1"
    /\ pending_instance_queue_["P"] = << >>

\* C26: the instances leave the pending queue in the order they were
\* enqueued: the scanner appends at the back of the queue, a worker pops the
\* instance at its front, and nothing else changes the queue; so of two
\* pending instances the one enqueued first is popped first.  The checks of
\* two popped instances may end in either order.
C26_QueueIsFifo ==
    [][\A p \in fleet :
         LET q == pending_instance_queue_[p]
             r == pending_instance_queue_'[p] IN
         r # q =>
            \/ /\ q # << >>
               /\ r = Tail(q)
               /\ \E w \in Workers : /\ Pops(p, w)
                                     /\ worker_instance'[p][w] = Head(q).instance_id
            \/ /\ Len(r) > Len(q)
               /\ SubSeq(r, 1, Len(q)) = q
               /\ \A w \in Workers : ~Pops(p, w)
      ]_vars

\* C26 witness: the scan enqueued i1 and then i2; the worker has popped i1,
\* the instance enqueued first, and i2 is what the queue still holds.
C26_Witness ==
    /\ worker_pc["P"][1] = "recheck"
    /\ worker_instance["P"][1] = "i1"
    /\ pending_instance_queue_["P"] = << InstanceInfo("i2") >>
    /\ pending_instance_map_["P"] = {"i2"}

\* the workers of p that are between a successful prepare and the end of
\* do_check for instance i
Prepared(p, i) ==
    {w \in Workers : /\ worker_instance[p][w] = i
                     /\ worker_pc[p][w] \in {"emplace", "begin_check", "checking"}}

\* C28 (as claimed): within one daemon process at most one worker at a time
\* is between a successful prepare and the end of its check of an instance:
\* no two workers of a process run do_check for the same instance at once.
C28_OneWorkerPerInstance ==
    \A p \in fleet : \A i \in InstanceIds : Cardinality(Prepared(p, i)) <= 1

(***************************************************************************)
(* Forward check (InstanceChecker::do_check)                               *)
(***************************************************************************)
\* the rowset metas a run scans: at most MaxRowsets key-value pairs
MaxRowsets == 2

TabletIds == {1, 2}
SegmentCounts == {0, 1, 2}

\* InstanceChecker::storage_vault_map_ after init: the registered vaults; a
\* rowset meta may also name "vx", a resource id that is not registered
storage_vault_map_ == {"v1"}
ResourceIds == {"v1", "vx"}

\* rowset_id_v2 of the k-th rowset meta
RowsetIds == <<"R1", "R2", "R3", "R4">>

\* std::to_string of the small numbers a path holds
to_string(n) == <<"0", "1", "2", "3", "4", "5">>[n + 1]

\* StorageVault::tablet_path, path v0: data/{tablet_id}; a path is the
\* sequence of its components between '/'
tablet_path(tablet_id) == <<"data", to_string(tablet_id)>>

\* StorageVault::segment_path, path v0:
\* data/{tablet_id}/{rowset_id_v2}_{seg_idx}.dat; the file name is the
\* sequence of its tokens
segment_path(tablet_id, rowset_id, seg) ==
    <<"data", to_string(tablet_id), <<rowset_id, "_", to_string(seg), ".dat">> >>

\* the object a segment of a rowset is stored as: ObjectMeta {path, size}
SegmentObject(tablet_id, rowset_id, seg) ==
    [path |-> segment_path(tablet_id, rowset_id, seg), size |-> 10 * (seg + 1)]

\* the values of meta_rowset/{instance}/{tablet}/{version}: a value that does
\* not parse carries no fields
RowsetValuesOf(tablets) ==
    {[tablet_id |-> t, resource_id |-> r, num_segments |-> n, parses |-> TRUE] :
        t \in tablets, r \in ResourceIds, n \in SegmentCounts}
    \cup {[tablet_id |-> t, resource_id |-> "v1", num_segments |-> 0,
           parses |-> FALSE] : t \in tablets}

RowsetValues == RowsetValuesOf(TabletIds)

\* the range meta_rowset/{instance}/*: in key order, so ascending in tablet_id
RowsetInputsOf(values) ==
    UNION {{[k \in 1..n |->
                [tablet_id |-> f[k].tablet_id,
                 rowset_id_v2 |-> RowsetIds[k],
                 resource_id |-> f[k].resource_id,
                 num_segments |-> f[k].num_segments,
                 parses |-> f[k].parses]] :
               f \in {g \in [1..n -> values] :
                         \A a, b \in 1..n :
                             a < b => g[a].tablet_id <= g[b].tablet_id}} :
           n \in 0..MaxRowsets}

RowsetInputs == RowsetInputsOf(RowsetValues)

\* tablet ids with 0, the value of an unset tablet_id field and of
\* TabletFiles::tablet_id in an empty cache
ZeroTabletIds == {0, 1}

\* the ranges whose rowset metas may carry tablet_id 0
ZeroRowsetInputs == RowsetInputsOf(RowsetValuesOf(ZeroTabletIds))

\* the segment objects the rowsets of a vault were written as
ExpectedObjects(kv, vault) ==
    UNION {{SegmentObject(kv[k].tablet_id, kv[k].rowset_id_v2, s) :
               s \in 0..(kv[k].num_segments - 1)} :
           k \in {j \in 1..Len(kv) : kv[j].parses /\ kv[j].resource_id = vault}}

\* the object store: every vault holds any part of what was written to it
ObjectInputs(kv) ==
    {f \in [storage_vault_map_ -> SUBSET UNION {ExpectedObjects(kv, v) :
                                                   v \in storage_vault_map_}] :
        \A v \in storage_vault_map_ : f[v] \subseteq ExpectedObjects(kv, v)}

\* TabletFiles {}: tablet_id 0, no files, no storage vault
EmptyTabletFiles == [tablet_id |-> 0, files |-> {}, storage_vault |-> "none"]

\* the entries of check_log
FailureEvent(kind, k) ==
    [kind |-> kind, rowset |-> k, path |-> << >>, key_exist |-> 0]

ProbeEvent(k, path, ret) ==
    [kind |-> "segment", rowset |-> k, path |-> path, key_exist |-> ret]

\* the entries of volume_log: instance_volume += tablet_volume
VolumeEvent(tablet_id, volume) == [tablet_id |-> tablet_id, volume |-> volume]

\* the locals of do_check at its start
CheckLocals ==
    /\ rowset_key_deleted = FALSE
    /\ range_pos = 0
    /\ range_valid = TRUE
    /\ rs_index = 0
    /\ seg_i = 0
    /\ tablet_files_cache = EmptyTabletFiles
    /\ num_scanned = 0
    /\ num_scanned_with_segment = 0
    /\ num_check_failed = 0
    /\ instance_volume = 0
    /\ check_ret = 0
    /\ check_log = << >>
    /\ volume_log = << >>

\* no check is modelled
IdleCheck ==
    /\ check_pc = "off"
    /\ kv_rowsets = << >>
    /\ objects = [v \in storage_vault_map_ |-> {}]
    /\ CheckLocals

InitCheck ==
    /\ check_pc = "scan"
    /\ kv_rowsets \in RowsetInputs
    /\ objects \in ObjectInputs(kv_rowsets)
    /\ CheckLocals

InitCheckZero ==
    /\ check_pc = "scan"
    /\ kv_rowsets \in ZeroRowsetInputs
    /\ objects \in ObjectInputs(kv_rowsets)
    /\ CheckLocals

\* Accessor::list_directory: the files of the vault under the directory
list_directory(vault, dir) ==
    {o \in objects[vault] : /\ Len(o.path) > Len(dir)
                            /\ SubSeq(o.path, 1, Len(dir)) = dir}

RECURSIVE SumSizes(_)
\* tablet_volume: the sum of file->size over the listing
SumSizes(files) ==
    IF files = {} THEN 0
    ELSE LET o == CHOOSE x \in files : TRUE IN o.size + SumSizes(files \ {o})

\* key_exist: 0 for a key that is there, 1 for key not found, -1 for an error
key_exist(deleted, txn_ok) ==
    IF ~txn_ok THEN -1
    ELSE IF deleted THEN 1
    ELSE 0

\* tablet_files_cache.storage_vault.value() before the segment loop:
\* std::optional::value() throws std::bad_optional_access on an optional
\* without a value, and the exception leaves do_check
enter_segments(cache) ==
    IF cache.storage_vault = "none" THEN "bad_optional_access" ELSE "segments"

\* fill_tablet_files_cache that lists the directory for every rowset, whatever
\* tablet the cache holds
fill_tablet_files_cache_always_lists(cache, rs, list_ok) ==
    IF rs.resource_id \notin storage_vault_map_
    THEN [cache |-> EmptyTabletFiles, failed |-> "vault", volume |-> 0,
          listed |-> FALSE, enter |-> FALSE]
    ELSE IF ~list_ok
    THEN [cache |-> [EmptyTabletFiles EXCEPT !.storage_vault = rs.resource_id],
          failed |-> "list", volume |-> 0, listed |-> FALSE, enter |-> FALSE]
    ELSE LET files == list_directory(rs.resource_id, tablet_path(rs.tablet_id)) IN
         [cache |-> [tablet_id |-> rs.tablet_id,
                     files |-> {o.path : o \in files},
                     storage_vault |-> rs.resource_id],
          failed |-> "", volume |-> SumSizes(files), listed |-> TRUE,
          enter |-> TRUE]

\* check_rowset_objects up to the segment loop: what the lookup in
\* tablet_files_cache leaves.  Returns the cache, the failures counted, the
\* volume added, whether a listing was added to the volume and whether the
\* segment loop is entered.
fill_tablet_files_cache(cache, rs, list_ok) ==
    IF cache.tablet_id = rs.tablet_id
    THEN [cache |-> cache, failed |-> "", volume |-> 0, listed |-> FALSE,
          enter |-> TRUE]
    ELSE IF rs.resource_id \notin storage_vault_map_
    THEN [cache |-> EmptyTabletFiles, failed |-> "vault", volume |-> 0,
          listed |-> FALSE, enter |-> FALSE]
    ELSE IF ~list_ok
    THEN [cache |-> [EmptyTabletFiles EXCEPT !.storage_vault = rs.resource_id],
          failed |-> "list", volume |-> 0, listed |-> FALSE, enter |-> FALSE]
    ELSE LET files == list_directory(rs.resource_id, tablet_path(rs.tablet_id)) IN
         [cache |-> [tablet_id |-> rs.tablet_id,
                     files |-> {o.path : o \in files},
                     storage_vault |-> rs.resource_id],
          failed |-> "", volume |-> SumSizes(files), listed |-> TRUE,
          enter |-> TRUE]

\* RangeNext that counts a rowset of zero segments as scanned with segment
RangeNext_counts_empty ==
    /\ check_pc = "scan"
    /\ range_valid
    /\ range_pos < Len(kv_rowsets)
    /\ LET k == range_pos + 1
           rs == kv_rowsets[k] IN
       /\ range_pos' = k
       /\ num_scanned' = num_scanned + 1
       /\ rowset_key_deleted' = FALSE
       /\ IF ~rs.parses
          THEN /\ num_check_failed' = num_check_failed + 1
               /\ check_log' = Append(check_log, FailureEvent("malformed", k))
               /\ UNCHANGED <<check_pc, rs_index, seg_i, tablet_files_cache,
                              num_scanned_with_segment, instance_volume,
                              volume_log>>
          ELSE \E list_ok \in BOOLEAN :
               LET r == fill_tablet_files_cache(tablet_files_cache, rs, list_ok) IN
               /\ num_scanned_with_segment' = num_scanned_with_segment + 1
               /\ tablet_files_cache' = r.cache
               /\ instance_volume' = instance_volume + r.volume
               /\ volume_log' = IF r.listed
                                THEN Append(volume_log,
                                            VolumeEvent(rs.tablet_id, r.volume))
                                ELSE volume_log
               /\ num_check_failed' =
                      num_check_failed + (IF r.failed # "" THEN 1 ELSE 0)
               /\ check_log' = IF r.failed # ""
                               THEN Append(check_log, FailureEvent(r.failed, k))
                               ELSE check_log
               /\ IF r.enter /\ rs.num_segments > 0
                  THEN /\ check_pc' = enter_segments(r.cache)
                       /\ rs_index' = k
                       /\ seg_i' = 0
                  ELSE UNCHANGED <<check_pc, rs_index, seg_i>>
    /\ UNCHANGED <<kv_rowsets, objects, range_valid, check_ret, daemonVars,
                 invVars, inspectVars, execVars>>

\* RangeNext that skips a malformed rowset meta without counting it
RangeNext_skips_malformed ==
    /\ check_pc = "scan"
    /\ range_valid
    /\ range_pos < Len(kv_rowsets)
    /\ LET k == range_pos + 1
           rs == kv_rowsets[k] IN
       /\ range_pos' = k
       /\ num_scanned' = num_scanned + 1
       /\ rowset_key_deleted' = FALSE
       /\ IF ~rs.parses
          THEN /\ UNCHANGED <<num_check_failed, check_log>>
               /\ UNCHANGED <<check_pc, rs_index, seg_i, tablet_files_cache,
                              num_scanned_with_segment, instance_volume,
                              volume_log>>
          ELSE IF rs.num_segments = 0
          THEN UNCHANGED <<check_pc, rs_index, seg_i, tablet_files_cache,
                           num_scanned_with_segment, instance_volume,
                           num_check_failed, check_log, volume_log>>
          ELSE \E list_ok \in BOOLEAN :
               LET r == fill_tablet_files_cache(tablet_files_cache, rs, list_ok) IN
               /\ num_scanned_with_segment' = num_scanned_with_segment + 1
               /\ tablet_files_cache' = r.cache
               /\ instance_volume' = instance_volume + r.volume
               /\ volume_log' = IF r.listed
                                THEN Append(volume_log,
                                            VolumeEvent(rs.tablet_id, r.volume))
                                ELSE volume_log
               /\ num_check_failed' =
                      num_check_failed + (IF r.failed # "" THEN 1 ELSE 0)
               /\ check_log' = IF r.failed # ""
                               THEN Append(check_log, FailureEvent(r.failed, k))
                               ELSE check_log
               /\ IF r.enter
                  THEN /\ check_pc' = enter_segments(r.cache)
                       /\ rs_index' = k
                       /\ seg_i' = 0
                  ELSE UNCHANGED <<check_pc, rs_index, seg_i>>
    /\ UNCHANGED <<kv_rowsets, objects, range_valid, check_ret, daemonVars,
                 invVars, inspectVars, execVars>>

\* range_it->next() returns a pair: one pass of the scan loop up to the
\* segment loop of check_rowset_objects
RangeNext ==
    /\ check_pc = "scan"
    /\ range_valid
    /\ range_pos < Len(kv_rowsets)
    /\ LET k == range_pos + 1
           rs == kv_rowsets[k] IN
       /\ range_pos' = k
       /\ num_scanned' = num_scanned + 1
       /\ rowset_key_deleted' = FALSE
       /\ IF ~rs.parses
          THEN /\ num_check_failed' = num_check_failed + 1
               /\ check_log' = Append(check_log, FailureEvent("malformed", k))
               /\ UNCHANGED <<check_pc, rs_index, seg_i, tablet_files_cache,
                              num_scanned_with_segment, instance_volume,
                              volume_log>>
          ELSE IF rs.num_segments = 0
          THEN UNCHANGED <<check_pc, rs_index, seg_i, tablet_files_cache,
                           num_scanned_with_segment, instance_volume,
                           num_check_failed, check_log, volume_log>>
          ELSE \E list_ok \in BOOLEAN :
               LET r == fill_tablet_files_cache(tablet_files_cache, rs, list_ok) IN
               /\ num_scanned_with_segment' = num_scanned_with_segment + 1
               /\ tablet_files_cache' = r.cache
               /\ instance_volume' = instance_volume + r.volume
               /\ volume_log' = IF r.listed
                                THEN Append(volume_log,
                                            VolumeEvent(rs.tablet_id, r.volume))
                                ELSE volume_log
               /\ num_check_failed' =
                      num_check_failed + (IF r.failed # "" THEN 1 ELSE 0)
               /\ check_log' = IF r.failed # ""
                               THEN Append(check_log, FailureEvent(r.failed, k))
                               ELSE check_log
               /\ IF r.enter
                  THEN /\ check_pc' = enter_segments(r.cache)
                       /\ rs_index' = k
                       /\ seg_i' = 0
                  ELSE UNCHANGED <<check_pc, rs_index, seg_i>>
    /\ UNCHANGED <<kv_rowsets, objects, range_valid, check_ret, daemonVars,
                 invVars, inspectVars, execVars>>

\* the segment loop has reached its end: back to the scan loop
next_segment(rs, i) == IF i + 1 < rs.num_segments THEN "segments" ELSE "scan"

\* CheckSegment that counts a missing segment whatever key_exist returns
CheckSegment_ignores_key_exist ==
    /\ check_pc = "segments"
    /\ LET rs == kv_rowsets[rs_index]
           path == segment_path(rs.tablet_id, rs.rowset_id_v2, seg_i) IN
       /\ IF path \in tablet_files_cache.files
          THEN UNCHANGED <<num_check_failed, check_log>>
          ELSE \E txn_ok \in BOOLEAN :
               LET ret == key_exist(rowset_key_deleted, txn_ok) IN
               /\ check_log' = Append(check_log, ProbeEvent(rs_index, path, ret))
               /\ num_check_failed' = num_check_failed + 1
       /\ seg_i' = seg_i + 1
       /\ check_pc' = next_segment(rs, seg_i)
    /\ UNCHANGED <<kv_rowsets, rowset_key_deleted, objects, range_pos,
                 range_valid, rs_index, tablet_files_cache, num_scanned,
                 num_scanned_with_segment, instance_volume, check_ret,
                 volume_log, daemonVars, invVars, inspectVars, execVars>>

\* CheckSegment that looks no segment up and counts none
CheckSegment_skips ==
    /\ check_pc = "segments"
    /\ seg_i' = seg_i + 1
    /\ check_pc' = next_segment(kv_rowsets[rs_index], seg_i)
    /\ UNCHANGED <<kv_rowsets, rowset_key_deleted, objects, range_pos,
                 range_valid, rs_index, tablet_files_cache, num_scanned,
                 num_scanned_with_segment, num_check_failed, instance_volume,
                 check_ret, check_log, volume_log, daemonVars, invVars,
                 inspectVars, execVars>>

\* one pass of the segment loop: the lookup of the path in the cached
\* listing and, for a path that is not there, the re-read of the rowset key
CheckSegment ==
    /\ check_pc = "segments"
    /\ LET rs == kv_rowsets[rs_index]
           path == segment_path(rs.tablet_id, rs.rowset_id_v2, seg_i) IN
       /\ IF path \in tablet_files_cache.files
          THEN UNCHANGED <<num_check_failed, check_log>>
          ELSE \E txn_ok \in BOOLEAN :
               LET ret == key_exist(rowset_key_deleted, txn_ok) IN
               /\ check_log' = Append(check_log, ProbeEvent(rs_index, path, ret))
               /\ num_check_failed' =
                      num_check_failed + (IF ret = 1 THEN 0 ELSE 1)
       /\ seg_i' = seg_i + 1
       /\ check_pc' = next_segment(rs, seg_i)
    /\ UNCHANGED <<kv_rowsets, rowset_key_deleted, objects, range_pos,
                 range_valid, rs_index, tablet_files_cache, num_scanned,
                 num_scanned_with_segment, instance_volume, check_ret,
                 volume_log, daemonVars, invVars, inspectVars, execVars>>

\* range_it->next() returns nothing at the end of the range: the iterator is
\* valid and do_check returns by num_check_failed
RangeEnd ==
    /\ check_pc = "scan"
    /\ range_valid
    /\ range_pos = Len(kv_rowsets)
    /\ check_ret' = IF num_check_failed = 0 THEN 0 ELSE -2
    /\ check_pc' = "done"
    /\ UNCHANGED <<kv_rowsets, rowset_key_deleted, objects, range_pos,
                 range_valid, rs_index, seg_i, tablet_files_cache,
                 num_scanned, num_scanned_with_segment, num_check_failed,
                 instance_volume, check_log, volume_log, daemonVars, invVars,
                 inspectVars, execVars>>

\* range_it->next() returns nothing because a read of the range failed: the
\* iterator is not valid and do_check returns -1
RangeFail ==
    /\ check_pc = "scan"
    /\ range_valid
    /\ range_valid' = FALSE
    /\ check_ret' = -1
    /\ check_pc' = "done"
    /\ UNCHANGED <<kv_rowsets, rowset_key_deleted, objects, range_pos, rs_index,
                 seg_i, tablet_files_cache, num_scanned,
                 num_scanned_with_segment, num_check_failed, instance_volume,
                 check_log, volume_log, daemonVars, invVars, inspectVars,
                 execVars>>

\* a concurrent writer deletes the key of the rowset whose segments are being
\* looked up (a key deleted before the scan returns it is a key the scan does
\* not see, and one deleted after its segment loop is not read again)
DeleteRowsetKey ==
    /\ check_pc = "segments"
    /\ ~rowset_key_deleted
    /\ rowset_key_deleted' = TRUE
    /\ UNCHANGED <<kv_rowsets, objects, check_pc, range_pos, range_valid,
                 rs_index, seg_i, tablet_files_cache, num_scanned,
                 num_scanned_with_segment, num_check_failed, instance_volume,
                 check_ret, check_log, volume_log, daemonVars, invVars,
                 inspectVars, execVars>>

NextCheck ==
    \/ RangeNext
    \/ CheckSegment
    \/ RangeEnd
    \/ RangeFail
    \/ DeleteRowsetKey

(***************************************************************************)
(* Claims about the forward check                                          *)
(***************************************************************************)
\* do_check has returned after a scan that stayed valid
CheckReturned == check_pc = "done" /\ range_valid

\* the entries of check_log that count a failure
FailuresLogged ==
    {j \in DOMAIN check_log :
        check_log[j].kind # "segment" \/ check_log[j].key_exist # 1}

\* every rowset meta is well formed and names a registered vault, and every
\* vault holds every segment object of its rowsets
CleanInput ==
    /\ \A k \in DOMAIN kv_rowsets :
          /\ kv_rowsets[k].parses
          /\ kv_rowsets[k].resource_id \in storage_vault_map_
    /\ \A v \in storage_vault_map_ : objects[v] = ExpectedObjects(kv_rowsets, v)

\* no list_directory of the run failed
ListingsSucceeded == \A j \in DOMAIN check_log : check_log[j].kind # "list"

\* the segment loop ran for the k-th rowset
Entered(k) ==
    /\ kv_rowsets[k].parses
    /\ kv_rowsets[k].num_segments > 0
    /\ \A j \in DOMAIN check_log :
          check_log[j].rowset = k => check_log[j].kind = "segment"

\* segment s of the k-th rowset is in the listing of no vault
Absent(k, s) ==
    \A v \in storage_vault_map_ :
        segment_path(kv_rowsets[k].tablet_id, kv_rowsets[k].rowset_id_v2, s)
            \notin {o.path : o \in objects[v]}

\* the segments whose lookup in the listing failed in a run that returned
MissingSegments ==
    {ks \in (DOMAIN kv_rowsets) \X {0, 1, 2} :
        /\ ks[2] < kv_rowsets[ks[1]].num_segments
        /\ Entered(ks[1])
        /\ Absent(ks[1], ks[2])}

\* the entries of check_log about segment s of the k-th rowset
ProbesOf(k, s) ==
    {j \in DOMAIN check_log :
        check_log[j].path = segment_path(kv_rowsets[k].tablet_id,
                                         kv_rowsets[k].rowset_id_v2, s)}

\* C7: clean case.  With N well-formed rowset metas returned by a scan that
\* stayed valid, every vault registered, every listing successful and holding
\* every segment path of every rowset, do_check returns 0 with
\* num_check_failed = 0, num_scanned = N and num_scanned_with_segment = the
\* number of rowsets with num_segments > 0.
C7_CleanCheck ==
    (CheckReturned /\ CleanInput /\ ListingsSucceeded) =>
        /\ check_ret = 0
        /\ num_check_failed = 0
        /\ num_scanned = Len(kv_rowsets)
        /\ num_scanned_with_segment =
               Cardinality({k \in DOMAIN kv_rowsets :
                               kv_rowsets[k].num_segments > 0})
        /\ instance_volume =
               SumSizes({o \in UNION {objects[v] : v \in storage_vault_map_} :
                            \E k \in DOMAIN kv_rowsets :
                                /\ kv_rowsets[k].num_segments > 0
                                /\ o.path[2] = to_string(kv_rowsets[k].tablet_id)})

\* C7 witness: a clean run over two rowsets, one of two segments (sizes 10
\* and 20) and one of none, has returned.
C7_Witness ==
    /\ CheckReturned /\ CleanInput /\ ListingsSucceeded
    /\ Len(kv_rowsets) = 2
    /\ \E k \in DOMAIN kv_rowsets : kv_rowsets[k].num_segments = 2
    /\ \E k \in DOMAIN kv_rowsets : kv_rowsets[k].num_segments = 0
    /\ instance_volume = 30
    /\ check_ret = 0

\* C8: real loss.  When do_check has returned after a valid scan, every
\* segment path that was absent from its tablet's listing was re-probed
\* exactly once, and if the re-read found the rowset key still present the
\* run counted one failure for it (num_check_failed is the number of logged
\* failures) and returned -2.
C8_RealLoss ==
    CheckReturned =>
        \A ks \in MissingSegments :
            /\ Cardinality(ProbesOf(ks[1], ks[2])) = 1
            /\ \A j \in ProbesOf(ks[1], ks[2]) :
                  check_log[j].key_exist = 0 =>
                      /\ j \in FailuresLogged
                      /\ num_check_failed = Cardinality(FailuresLogged)
                      /\ check_ret = -2

\* C8 witness: the second segment of a two-segment rowset is missing, its
\* key was found present, and the run returned -2 with that one failure.
C8_Witness ==
    /\ CheckReturned
    /\ MissingSegments = {<<1, 1>>}
    /\ \E j \in ProbesOf(1, 1) : check_log[j].key_exist = 0
    /\ num_check_failed = 1
    /\ check_ret = -2

\* C9: concurrent delete.  When do_check has returned after a valid scan and
\* every missing segment's re-probe found the rowset key deleted, with no
\* other failure in the run, no failure was counted and do_check returned 0.
C9_ConcurrentDelete ==
    (/\ CheckReturned
     /\ \A j \in DOMAIN check_log :
           check_log[j].kind = "segment" /\ check_log[j].key_exist = 1
     /\ \A ks \in MissingSegments : ProbesOf(ks[1], ks[2]) # {})
        => /\ num_check_failed = 0
           /\ check_ret = 0

\* C9 witness: a segment was missing, the writer deleted the rowset key
\* before the re-probe, and the run returned 0.
C9_Witness ==
    /\ CheckReturned
    /\ MissingSegments # {}
    /\ \A ks \in MissingSegments :
          \E j \in ProbesOf(ks[1], ks[2]) : check_log[j].key_exist = 1
    /\ \A j \in DOMAIN check_log : check_log[j].key_exist = 1
    /\ check_ret = 0

(***************************************************************************)
(* Forward check with listings that end early                              *)
(***************************************************************************)
\* the place of a segment object in the key order of a listing
ListingRank(o) ==
    LET name == o.path[3]
        k == CHOOSE j \in DOMAIN RowsetIds : RowsetIds[j] = name[1]
        s == CHOOSE n \in 0..5 : to_string(n) = name[3] IN
    3 * k + s

\* what a ListIterator returns when it ends early: the files before some
\* place of the listing, at least one file short
TruncatedListings(files) ==
    {{o \in files : ListingRank(o) < c} : c \in 0..15} \ {files}

\* range_it->next() returns a pair whose tablet is not in the cache;
\* list_directory returns 0 and the iterator it gives ends invalid after
\* part of the files: the loop over list_iter->next() inserts what was
\* returned, and list_iter->is_valid() is not called
RangeNextTruncated ==
    /\ check_pc = "scan"
    /\ range_valid
    /\ range_pos < Len(kv_rowsets)
    /\ LET k == range_pos + 1
           rs == kv_rowsets[k] IN
       /\ rs.parses
       /\ rs.num_segments > 0
       /\ tablet_files_cache.tablet_id # rs.tablet_id
       /\ rs.resource_id \in storage_vault_map_
       /\ \E files \in TruncatedListings(
                           list_directory(rs.resource_id,
                                          tablet_path(rs.tablet_id))) :
            /\ tablet_files_cache' = [tablet_id |-> rs.tablet_id,
                                      files |-> {o.path : o \in files},
                                      storage_vault |-> rs.resource_id]
            /\ instance_volume' = instance_volume + SumSizes(files)
            /\ volume_log' = Append(volume_log,
                                    VolumeEvent(rs.tablet_id, SumSizes(files)))
       /\ range_pos' = k
       /\ num_scanned' = num_scanned + 1
       /\ num_scanned_with_segment' = num_scanned_with_segment + 1
       /\ rowset_key_deleted' = FALSE
       /\ check_pc' = "segments"
       /\ rs_index' = k
       /\ seg_i' = 0
    /\ UNCHANGED <<kv_rowsets, objects, range_valid, num_check_failed,
                 check_ret, check_log, daemonVars, invVars, inspectVars,
                 execVars>>

NextTruncated ==
    \/ RangeNext
    \/ RangeNextTruncated
    \/ CheckSegment
    \/ RangeEnd
    \/ RangeFail
    \/ DeleteRowsetKey

\* the objects of the vault a resource id names: none if it is not registered
VaultObjects(resource_id) ==
    IF resource_id \in storage_vault_map_ THEN objects[resource_id] ELSE {}

\* C21 (as claimed): a listing that ends invalid is not taken for the
\* tablet's complete file set when the segments are probed: every segment
\* do_check counts as missing (the path was not found and the rowset key was
\* found present) is absent from the vault of its rowset.
C21_TruncatedListing ==
    \A j \in DOMAIN check_log :
        (check_log[j].kind = "segment" /\ check_log[j].key_exist = 0)
            => check_log[j].path
                   \notin {o.path : o \in VaultObjects(
                                      kv_rowsets[check_log[j].rowset].resource_id)}

\* the scan loop returns the next pair in this step
Scans(k) == check_pc = "scan" /\ range_pos' = k /\ range_pos = k - 1

\* C22: every scanned rowset value that does not deserialize adds one to
\* num_check_failed and the scan goes on with the next pair, and a run that
\* scanned such a value returns -2, or -1 if the range iterator ended
\* invalid; a rowset of zero segments is counted in num_scanned and adds
\* nothing to num_scanned_with_segment or num_check_failed, and no listing
\* is made for it (the cache and the volume stay as they are).
C22_MalformedCounted ==
    [][ /\ \A k \in DOMAIN kv_rowsets :
              /\ (Scans(k) /\ ~kv_rowsets[k].parses)
                    => /\ num_check_failed' = num_check_failed + 1
                       /\ num_scanned' = num_scanned + 1
                       /\ check_pc' = "scan"
              /\ (Scans(k) /\ kv_rowsets[k].parses
                           /\ kv_rowsets[k].num_segments = 0)
                    => /\ num_scanned' = num_scanned + 1
                       /\ check_pc' = "scan"
                       /\ UNCHANGED <<num_scanned_with_segment, num_check_failed,
                                      tablet_files_cache, instance_volume>>
        /\ (/\ check_pc' = "done"
            /\ \E k \in 1..range_pos' : ~kv_rowsets[k].parses)
              => /\ check_ret' \in {-1, -2}
                 /\ check_ret' = -1 <=> ~range_valid'
      ]_vars

\* C22 witness: a run over a value that does not deserialize and a rowset of
\* zero segments has returned -2 with two scanned, one failed, none with
\* segments and nothing listed.
C22_Witness ==
    /\ CheckReturned
    /\ Len(kv_rowsets) = 2
    /\ ~kv_rowsets[1].parses
    /\ kv_rowsets[2].parses /\ kv_rowsets[2].num_segments = 0
    /\ num_scanned = 2
    /\ num_check_failed = 1
    /\ num_scanned_with_segment = 0
    /\ tablet_files_cache = EmptyTabletFiles
    /\ check_ret = -2

RECURSIVE SumVolumes(_)
\* the sum of the volumes a log of additions holds
SumVolumes(log) ==
    IF log = << >> THEN 0 ELSE Head(log).volume + SumVolumes(Tail(log))

\* the rowsets whose pass listed the directory of their tablet: the scan has
\* passed them, they parse, have segments, and no failure is logged for a
\* vault lookup or a listing of theirs
FailedLookup(k) ==
    \E j \in DOMAIN check_log :
        check_log[j].rowset = k /\ check_log[j].kind \in {"vault", "list"}

\* the tablets with a rowset the scan has passed that names a registered
\* vault and whose lookup did not fail: their directory was listed or was in
\* the cache
MeasuredTablets ==
    {kv_rowsets[k].tablet_id :
        k \in {j \in 1..range_pos : /\ kv_rowsets[j].parses
                                    /\ kv_rowsets[j].num_segments > 0
                                    /\ ~FailedLookup(j)}}

\* C23: in a run of do_check over rowsets in ascending tablet_id order, the
\* volume of the directory of a tablet is added to instance_volume once for
\* every tablet whose listing succeeded and for no tablet twice, whatever
\* the number of its rowsets and the failures of vault lookups or listings
\* on earlier rowsets of the tablet; instance_volume is the sum of these
\* additions.
C23_VolumeOnce ==
    /\ \A i, j \in DOMAIN volume_log :
           i # j => volume_log[i].tablet_id # volume_log[j].tablet_id
    /\ {volume_log[i].tablet_id : i \in DOMAIN volume_log} = MeasuredTablets
    /\ \A i \in DOMAIN volume_log :
           \E k \in 1..range_pos :
               /\ kv_rowsets[k].tablet_id = volume_log[i].tablet_id
               /\ kv_rowsets[k].resource_id \in storage_vault_map_
               /\ volume_log[i].volume =
                      SumSizes(list_directory(kv_rowsets[k].resource_id,
                                              tablet_path(kv_rowsets[k].tablet_id)))
    /\ instance_volume = SumVolumes(volume_log)

\* C23 witness: the listing for the first rowset of a tablet failed, the one
\* for its second rowset succeeded, and the run ended with the volume of the
\* tablet's directory added once.
C23_Witness ==
    /\ CheckReturned
    /\ Len(kv_rowsets) = 2
    /\ kv_rowsets[1].tablet_id = kv_rowsets[2].tablet_id
    /\ \E j \in DOMAIN check_log :
          check_log[j].rowset = 1 /\ check_log[j].kind = "list"
    /\ Len(volume_log) = 1
    /\ instance_volume > 0

\* C30 (as claimed): while the segments of a rowset are looked up, the
\* cached listing and the storage vault whose path layout is used are those
\* of the vault the rowset's own resource_id names, also for a rowset that
\* follows a rowset of the same tablet with another resource_id.
C30_OwnVaultListing ==
    check_pc = "segments" =>
        LET rs == kv_rowsets[rs_index] IN
        /\ tablet_files_cache.storage_vault = rs.resource_id
        /\ tablet_files_cache.files
               = {o.path : o \in {x \in VaultObjects(rs.resource_id) :
                                     x.path[2] = to_string(rs.tablet_id)}}

\* C31 (as claimed): whenever a run of do_check reaches the segment loop for
\* a rowset, whatever tablet_id the rowset meta carries, 0 included, and
\* whatever failed on the rowset before, tablet_files_cache holds a storage
\* vault: storage_vault.value() finds a value.
C31_CacheHoldsVault ==
    check_pc \in {"segments", "bad_optional_access"}
        => tablet_files_cache.storage_vault # "none"

(***************************************************************************)
(* Inverted check (InstanceChecker::do_inverted_check)                     *)
(***************************************************************************)
\* the files a vault lists under data/: at most MaxObjects
MaxObjects == 2

\* keys of the vault that are no segment path: too few components, a file
\* name without '_', a tablet component that is no number
ShortKey == [path |-> <<"data", "1">>, size |-> 10]
NoUnderscoreKey == [path |-> <<"data", "1", <<"R1", ".dat">> >>, size |-> 10]
BadTabletKey ==
    [path |-> <<"data", "abc", <<"R1", "_", "0", ".dat">> >>, size |-> 10]

\* first segments under data/{tablet_id}/ in key order: those of the rowset
\* ids the KV store may hold and of one more it never holds
TabletKeys(tablet_id) ==
    [i \in 1..(MaxRowsets + 1) |-> SegmentObject(tablet_id, RowsetIds[i], 0)]

\* every key a vault may list under data/, in the order of a listing
KeyOrder ==
    <<ShortKey, NoUnderscoreKey>> \o TabletKeys(1) \o TabletKeys(2)
        \o <<BadTabletKey>>

\* rowset metas with one segment each in the registered vault
InvertedRowsetInputs ==
    {kv \in RowsetInputs :
        \A k \in DOMAIN kv :
            kv[k].parses => /\ kv[k].resource_id \in storage_vault_map_
                            /\ kv[k].num_segments = 1}

\* the object store: every vault holds at most MaxObjects of the keys
InvertedObjectInputs ==
    [storage_vault_map_ ->
        {S \in SUBSET Range(KeyOrder) : Cardinality(S) <= MaxObjects}]

\* TabletRowsets {}: tablet_id 0, no rowset ids
EmptyTabletRowsets == [tablet_id |-> 0, rowset_ids |-> {}]

\* the locals of do_inverted_check at its start
InvertedLocals ==
    /\ inv_vaults = << >>
    /\ inv_files = << >>
    /\ tablet_rowsets_cache = EmptyTabletRowsets
    /\ inv_num_scanned = 0
    /\ inv_num_check_failed = 0
    /\ inv_ret = 0
    /\ inv_log = << >>

\* no inverted check is modelled
IdleInverted == inv_pc = "off" /\ InvertedLocals

InitInverted ==
    /\ check_pc = "off"
    /\ kv_rowsets \in InvertedRowsetInputs
    /\ objects \in InvertedObjectInputs
    /\ CheckLocals
    /\ inv_pc = "start"
    /\ InvertedLocals

\* ListIterator over list_directory: the files in key order
list_files(vault, dir) ==
    LET listed(o) == o \in list_directory(vault, dir) IN
    SelectSeq(KeyOrder, listed)

\* atol of a path component
atol(s) ==
    IF s \in {to_string(n) : n \in 0..5}
    THEN CHOOSE n \in 0..5 : to_string(n) = s
    ELSE 0

\* std::string::find('_') on a file name: the index of the first "_" token,
\* 0 for npos
find_underscore(name) ==
    IF \E j \in DOMAIN name : name[j] = "_"
    THEN CHOOSE j \in DOMAIN name :
             name[j] = "_" /\ \A h \in 1..(j - 1) : name[h] # "_"
    ELSE 0

RECURSIVE substr(_, _)
\* std::string::substr(0, pos) on a file name: its first pos tokens as a string
substr(name, pos) ==
    IF pos = 0 THEN "" ELSE substr(name, pos - 1) \o name[pos]

RECURSIVE read_rowset_ids(_, _, _)
\* the loop over range_it in check_segment_file: the rowset ids inserted from
\* the pairs the iterator returns, until a value that does not parse.
\* Returns the ids and whether the loop returned -1.
read_rowset_ids(rows, ids, reads) ==
    IF rows = << >> \/ reads = 0 THEN [ids |-> ids, malformed |-> FALSE]
    ELSE IF ~Head(rows).parses THEN [ids |-> ids, malformed |-> TRUE]
    ELSE read_rowset_ids(Tail(rows), ids \cup {Head(rows).rowset_id_v2},
                         reads - 1)

\* meta_rowset/{instance}/{tablet_id}/*: the rowset metas of a tablet
tablet_rowsets(tablet_id) ==
    LET of_tablet(rs) == rs.tablet_id = tablet_id IN
    SelectSeq(kv_rowsets, of_tablet)

\* the lambda check_segment_file: the object key is parsed; a key of the
\* cached tablet is looked up in the cache; for another tablet the cache is
\* filled from the KV store and 0 is returned.  With range_ok the range
\* iterator returns every pair; without, it fails after `reads` pairs.
\* Returns [ret, cache].
check_segment_file(cache, obj_key, reads, range_ok) ==
    LET str == obj_key IN
    IF Len(str) < 3 THEN [ret |-> -1, cache |-> cache]
    ELSE LET tablet_id == atol(str[2])
             pos == find_underscore(str[Len(str)])
             rowset_id == substr(str[Len(str)], pos - 1) IN
         IF tablet_id <= 0 THEN [ret |-> -1, cache |-> cache]
         ELSE IF pos = 0 THEN [ret |-> -1, cache |-> cache]
         ELSE IF cache.tablet_id = tablet_id
         THEN [ret |-> IF rowset_id \in cache.rowset_ids THEN 0 ELSE -1,
               cache |-> cache]
         ELSE LET rows == tablet_rowsets(tablet_id)
                  returned == IF range_ok \/ reads > Len(rows)
                              THEN Len(rows) ELSE reads
                  r == read_rowset_ids(rows, {}, returned)
                  filled == [tablet_id |-> tablet_id, rowset_ids |-> r.ids] IN
              IF r.malformed THEN [ret |-> -1, cache |-> filled]
              ELSE IF ~range_ok THEN [ret |-> -1, cache |-> filled]
              ELSE [ret |-> 0, cache |-> filled]

\* the loop over storage_vault_map_ starts
InvStart ==
    /\ inv_pc = "start"
    /\ \E order \in Orders(storage_vault_map_) : inv_vaults' = order
    /\ inv_pc' = "vault"
    /\ UNCHANGED <<inv_files, tablet_rowsets_cache, inv_num_scanned,
                 inv_num_check_failed, inv_ret, inv_log, daemonVars,
                 checkVars, inspectVars, execVars>>

\* accessor->list_directory("data", &list_iter) of the next vault; return -1
\* if it fails
InvListVault ==
    /\ inv_pc = "vault"
    /\ inv_vaults # << >>
    /\ \E list_ok \in BOOLEAN :
         IF list_ok
         THEN /\ inv_files' = list_files(Head(inv_vaults), <<"data">>)
              /\ inv_pc' = "files"
              /\ UNCHANGED inv_ret
         ELSE /\ inv_ret' = -1
              /\ inv_pc' = "done"
              /\ UNCHANGED inv_files
    /\ inv_vaults' = Tail(inv_vaults)
    /\ UNCHANGED <<tablet_rowsets_cache, inv_num_scanned, inv_num_check_failed,
                 inv_log, daemonVars, checkVars, inspectVars, execVars>>

\* list_iter->next() returns a file: ++num_scanned, check_segment_file
InvCheckFile ==
    /\ inv_pc = "files"
    /\ inv_files # << >>
    /\ \E reads \in 0..MaxRowsets, range_ok \in BOOLEAN :
         LET file == Head(inv_files)
             r == check_segment_file(tablet_rowsets_cache, file.path, reads,
                                     range_ok) IN
         /\ tablet_rowsets_cache' = r.cache
         /\ inv_num_check_failed' =
                inv_num_check_failed + (IF r.ret # 0 THEN 1 ELSE 0)
         /\ inv_log' = Append(inv_log, [path |-> file.path, ret |-> r.ret,
                                        range_ok |-> range_ok])
    /\ inv_num_scanned' = inv_num_scanned + 1
    /\ inv_files' = Tail(inv_files)
    /\ UNCHANGED <<inv_pc, inv_vaults, inv_ret, daemonVars, checkVars,
                 inspectVars, execVars>>

\* list_iter->next() returns nothing at the end of the listing and the
\* iterator is valid: on to the next vault
InvListEnd ==
    /\ inv_pc = "files"
    /\ inv_files = << >>
    /\ inv_pc' = "vault"
    /\ UNCHANGED <<inv_vaults, inv_files, tablet_rowsets_cache, inv_num_scanned,
                 inv_num_check_failed, inv_ret, inv_log, daemonVars,
                 checkVars, inspectVars, execVars>>

\* list_iter->next() returns nothing because the listing failed: return -1
InvListFail ==
    /\ inv_pc = "files"
    /\ inv_ret' = -1
    /\ inv_pc' = "done"
    /\ UNCHANGED <<inv_vaults, inv_files, tablet_rowsets_cache, inv_num_scanned,
                 inv_num_check_failed, inv_log, daemonVars, checkVars,
                 inspectVars, execVars>>

\* InvReturn that returns 0 whatever was counted
InvReturn_always_zero ==
    /\ inv_pc = "vault"
    /\ inv_vaults = << >>
    /\ inv_ret' = 0
    /\ inv_pc' = "done"
    /\ UNCHANGED <<inv_vaults, inv_files, tablet_rowsets_cache, inv_num_scanned,
                 inv_num_check_failed, inv_log, daemonVars, checkVars,
                 inspectVars, execVars>>

\* the loop over the vaults is over: return by num_check_failed
InvReturn ==
    /\ inv_pc = "vault"
    /\ inv_vaults = << >>
    /\ inv_ret' = IF inv_num_check_failed = 0 THEN 0 ELSE -1
    /\ inv_pc' = "done"
    /\ UNCHANGED <<inv_vaults, inv_files, tablet_rowsets_cache, inv_num_scanned,
                 inv_num_check_failed, inv_log, daemonVars, checkVars,
                 inspectVars, execVars>>

NextInverted ==
    \/ InvStart
    \/ InvListVault
    \/ InvCheckFile
    \/ InvListEnd
    \/ InvListFail
    \/ InvReturn

(***************************************************************************)
(* Claims about the inverted check                                         *)
(***************************************************************************)
\* the rowset_id_v2 of the rowset metas stored for a tablet
StoredRowsetIds(tablet_id) ==
    {kv_rowsets[k].rowset_id_v2 :
        k \in {j \in DOMAIN kv_rowsets : /\ kv_rowsets[j].parses
                                         /\ kv_rowsets[j].tablet_id = tablet_id}}

\* the path parses to (tablet_id, rowset_id) and no rowset meta of the
\* tablet has that rowset id
Unreferenced(path) ==
    /\ Len(path) = 3
    /\ atol(path[2]) > 0
    /\ find_underscore(path[3]) > 0
    /\ substr(path[3], find_underscore(path[3]) - 1)
           \notin StoredRowsetIds(atol(path[2]))

\* C6 (as claimed): every listed object whose path names a rowset id that
\* no rowset meta of its tablet has is counted as failed and makes
\* do_inverted_check return -1; so a run that returned 0 checked no such
\* object.
C6_OrphanFails ==
    (inv_pc = "done" /\ inv_ret = 0) =>
        \A j \in DOMAIN inv_log :
            /\ ~Unreferenced(inv_log[j].path)
            /\ inv_log[j].ret = 0

\* C17 (as claimed, for the inverted check): when do_inverted_check runs to
\* the end of its loop over the vaults with failed objects counted, no
\* listing having failed and no KV read having failed, the ret the worker
\* forms from its return value with enable_inverted_check is not -1, so
\* that the worker goes on to finish, and is not 0, so that success is false.
C17_FailedItemsFinish ==
    [][ (/\ inv_pc = "vault" /\ inv_vaults = << >> /\ inv_pc' = "done"
         /\ inv_num_check_failed > 0
         /\ \A j \in DOMAIN inv_log : inv_log[j].range_ok)
            => \A forward \in {0, -2} :
                   /\ check_result(forward, TRUE, inv_ret') # -1
                   /\ check_result(forward, TRUE, inv_ret') # 0
      ]_vars

\* the object key does not parse: fewer than 3 components, a tablet_id
\* component that is not > 0, or no '_' in the last component
ParseFails(path) ==
    \/ Len(path) < 3
    \/ atol(path[2]) <= 0
    \/ find_underscore(path[Len(path)]) = 0

\* filling the rowset cache for the key fails: the key is of another tablet
\* than the cached one and the range read fails or a value of the tablet
\* does not parse
PopulateFails(path, range_ok) ==
    /\ ~ParseFails(path)
    /\ tablet_rowsets_cache.tablet_id # atol(path[2])
    /\ \/ ~range_ok
       \/ \E k \in DOMAIN kv_rowsets :
             kv_rowsets[k].tablet_id = atol(path[2]) /\ ~kv_rowsets[k].parses

\* C24: do_inverted_check returns -1 if list_directory("data") fails or the
\* listing ends invalid for a vault, if filling the rowset cache of a tablet
\* from KV failed for a listed object, or if the path of a listed object did
\* not parse (each such object is counted as failed); a run that reaches
\* the end of the loop over the vaults returns 0 exactly when no listed
\* object was counted as failed, and -1 otherwise.
C24_InvertedResult ==
    [][ /\ (inv_pc = "files" /\ inv_num_scanned' = inv_num_scanned + 1)
              => LET entry == inv_log'[Len(inv_log')] IN
                 (ParseFails(entry.path) \/ PopulateFails(entry.path, entry.range_ok))
                     => /\ entry.ret = -1
                        /\ inv_num_check_failed' = inv_num_check_failed + 1
        /\ (inv_pc # "done" /\ inv_pc' = "done")
              => /\ inv_ret' \in {0, -1}
                 /\ (inv_pc = "vault" /\ inv_vaults # << >>) => inv_ret' = -1
                 /\ inv_pc = "files" => inv_ret' = -1
                 /\ inv_num_check_failed > 0 => inv_ret' = -1
                 /\ (\E j \in DOMAIN inv_log : inv_log[j].ret # 0) => inv_ret' = -1
                 /\ (/\ inv_pc = "vault" /\ inv_vaults = << >>
                     /\ \A j \in DOMAIN inv_log : inv_log[j].ret = 0)
                        => inv_ret' = 0
      ]_vars

\* C24 witness: one listed path did not parse and the rowset cache could not
\* be filled for another; the run returned -1 with both counted.
C24_Witness ==
    /\ inv_pc = "done"
    /\ inv_ret = -1
    /\ inv_vaults = << >>
    /\ inv_files = << >>
    /\ inv_num_scanned = 2
    /\ inv_num_check_failed = 2
    /\ \E j \in DOMAIN inv_log : ParseFails(inv_log[j].path)
    /\ \E j \in DOMAIN inv_log :
          ~ParseFails(inv_log[j].path) /\ ~inv_log[j].range_ok

(***************************************************************************)
(* SyncExecutor (sync_executor.h)                                          *)
(***************************************************************************)
\* the tasks one batch holds: at most MaxTasks
MaxTasks == 3

\* std::optional<T> without a value
nullopt == [has_value |-> FALSE, task |-> 0, cancel |-> FALSE]

\* the value T the callback of the n-th task of a batch returns; `cancel` says
\* whether the cancel predicate holds of it
CallbackResult(n, cancel) == [has_value |-> TRUE, task |-> n, cancel |-> cancel]

\* _cancel(t)
cancel_pred(t) == t.cancel

\* a Task as add() makes it: not yet picked up by a pool thread, _res empty;
\* `executed` records that _callback was called
NewTask(n, cancel) ==
    [callback |-> CallbackResult(n, cancel), state |-> "queued", _res |-> nullopt,
     executed |-> FALSE]

\* no executor is modelled
IdleExecutor ==
    /\ _tasks = << >>
    /\ _count = 0
    /\ _stop_token = FALSE
    /\ exec_pc = "off"
    /\ exec_res = << >>
    /\ exec_finished = FALSE
    /\ exec_batch = << >>
    /\ exec_token_cleared = FALSE

\* the executor after its constructor
InitExecutor ==
    /\ _tasks = << >>
    /\ _count = 0
    /\ _stop_token = FALSE
    /\ exec_pc = "ready"
    /\ exec_res = << >>
    /\ exec_finished = FALSE
    /\ exec_batch = << >>
    /\ exec_token_cleared = FALSE

\* SyncExecutor::add: the task is counted, submitted to the pool and recorded
Add ==
    /\ exec_pc = "ready"
    /\ Len(_tasks) < MaxTasks
    /\ \E cancel \in BOOLEAN :
           _tasks' = Append(_tasks, NewTask(Len(_tasks) + 1, cancel))
    /\ _count' = _count + 1
    /\ UNCHANGED <<_stop_token, exec_pc, exec_res, exec_finished, exec_batch,
                 exec_token_cleared, daemonVars, checkVars, invVars,
                 inspectVars>>

\* TaskStart without `if (stop_token) return`
TaskStart_ignores_stop_token ==
    \E n \in DOMAIN _tasks :
        /\ _tasks[n].state = "queued"
        /\ _tasks' = [_tasks EXCEPT ![n].state = "running"]
        /\ UNCHANGED _count
    /\ UNCHANGED <<_stop_token, exec_pc, exec_res, exec_finished, exec_batch,
                 exec_token_cleared, daemonVars, checkVars, invVars,
                 inspectVars>>

\* Task::operator(), on a pool thread: the read of the stop token; a task
\* that finds it set returns (and signals) without running its callback.
\* The threads of the pool reach this read in any order.
TaskStart ==
    \E n \in DOMAIN _tasks :
        /\ _tasks[n].state = "queued"
        /\ IF _stop_token
           THEN /\ _tasks' = [_tasks EXCEPT ![n].state = "done"]
                /\ _count' = _count - 1
           ELSE /\ _tasks' = [_tasks EXCEPT ![n].state = "running"]
                /\ UNCHANGED _count
    /\ UNCHANGED <<_stop_token, exec_pc, exec_res, exec_finished, exec_batch,
                 exec_token_cleared, daemonVars, checkVars, invVars,
                 inspectVars>>

\* Task::operator(), on a pool thread: the callback, the cancel predicate
\* on its result, the store into _res and the signal of the deferred guard
TaskRun ==
    \E n \in DOMAIN _tasks :
        /\ _tasks[n].state = "running"
        /\ LET t == _tasks[n].callback IN
           /\ _stop_token' = (_stop_token \/ cancel_pred(t))
           /\ _tasks' = [_tasks EXCEPT ![n].state = "done", ![n]._res = t,
                                        ![n].executed = TRUE]
        /\ _count' = _count - 1
    /\ UNCHANGED <<exec_pc, exec_res, exec_finished, exec_batch,
                 exec_token_cleared, daemonVars, checkVars, invVars,
                 inspectVars>>

RECURSIVE collect(_)
\* the loop of when_all over _tasks: the values in order, up to the first
\* task without one
collect(tasks) ==
    IF tasks = << >> THEN << >>
    ELSE IF Head(tasks)._res.has_value
    THEN <<Head(tasks)._res>> \o collect(Tail(tasks))
    ELSE << >>

\* WhenAll that does not wait for the count to reach zero
WhenAll_no_wait ==
    /\ exec_pc = "ready"
    /\ _count' = 0
    /\ exec_res' = collect(_tasks)
    /\ exec_finished' = (Len(_tasks) = Len(collect(_tasks)))
    /\ exec_batch' = _tasks
    /\ _tasks' = << >>
    /\ exec_pc' = "returned"
    /\ UNCHANGED <<_stop_token, exec_token_cleared, daemonVars, checkVars,
                 invVars, inspectVars>>

\* SyncExecutor::when_all: returns once _count.timed_wait has seen zero
WhenAll ==
    /\ exec_pc = "ready"
    /\ _count = 0
    /\ _count' = 0
    /\ exec_res' = collect(_tasks)
    /\ exec_finished' = (Len(_tasks) = Len(collect(_tasks)))
    /\ exec_batch' = _tasks
    /\ _tasks' = << >>
    /\ exec_pc' = "returned"
    /\ UNCHANGED <<_stop_token, exec_token_cleared, daemonVars, checkVars,
                 invVars, inspectVars>>

\* the caller has used what when_all returned and goes on with the executor
Continue ==
    /\ exec_pc = "returned"
    /\ exec_res' = << >>
    /\ exec_finished' = FALSE
    /\ exec_batch' = << >>
    /\ exec_pc' = "ready"
    /\ UNCHANGED <<_tasks, _count, _stop_token, exec_token_cleared, daemonVars,
                 checkVars, invVars, inspectVars>>

\* Reset that leaves the stop token as it is
Reset_keeps_stop_token ==
    /\ exec_pc = "ready"
    /\ _tasks # << >> => _count = 0
    /\ _count' = 0
    /\ _tasks' = << >>
    /\ UNCHANGED _stop_token
    /\ UNCHANGED exec_token_cleared
    /\ UNCHANGED <<exec_pc, exec_res, exec_finished, exec_batch, daemonVars,
                 checkVars, invVars, inspectVars>>

\* SyncExecutor::reset: when_all if tasks are left, then the token is cleared
Reset ==
    /\ exec_pc = "ready"
    /\ _tasks # << >> => _count = 0
    /\ _count' = 0
    /\ _tasks' = << >>
    /\ _stop_token' = FALSE
    /\ exec_token_cleared' = (exec_token_cleared \/ _stop_token)
    /\ UNCHANGED <<exec_pc, exec_res, exec_finished, exec_batch, daemonVars,
                 checkVars, invVars, inspectVars>>

\* SyncExecutor::~SyncExecutor: when_all if tasks are left
Destroy ==
    /\ exec_pc = "ready"
    /\ _tasks # << >> => _count = 0
    /\ _count' = 0
    /\ _tasks' = << >>
    /\ exec_pc' = "destroyed"
    /\ UNCHANGED <<_stop_token, exec_res, exec_finished, exec_batch,
                 exec_token_cleared, daemonVars, checkVars, invVars,
                 inspectVars>>

NextExecutor ==
    \/ Add
    \/ TaskStart
    \/ TaskRun
    \/ WhenAll
    \/ Continue
    \/ Reset
    \/ Destroy

(***************************************************************************)
(* Claims about the SyncExecutor                                           *)
(***************************************************************************)
\* C10: without cancellation.  When when_all has returned for a batch of M
\* tasks none of whose results satisfies the cancel predicate, and no earlier
\* result has left the stop token set, all M tasks had completed, the M
\* results are returned with the i-th the result of the i-th added task, and
\* finished is true.
C10_AllResultsInOrder ==
    (/\ exec_pc = "returned"
     /\ ~_stop_token
     /\ \A n \in DOMAIN exec_batch : ~cancel_pred(exec_batch[n].callback))
        => /\ \A n \in DOMAIN exec_batch : exec_batch[n].state = "done"
           /\ Len(exec_res) = Len(exec_batch)
           /\ \A n \in DOMAIN exec_res :
                  exec_res[n] = CallbackResult(n, FALSE)
           /\ exec_finished = TRUE

\* C10 witness: when_all has returned the three results of a batch of three
\* tasks, none cancelling.
C10_Witness ==
    /\ exec_pc = "returned"
    /\ ~_stop_token
    /\ Len(exec_batch) = 3
    /\ \A n \in DOMAIN exec_batch : ~cancel_pred(exec_batch[n].callback)
    /\ Len(exec_res) = 3
    /\ exec_finished = TRUE


\* task n leaves the queue in this step: a pool thread begins operator()
Starts(n) ==
    /\ n \in DOMAIN _tasks
    /\ _tasks[n].state = "queued"
    /\ n \in DOMAIN _tasks'
    /\ _tasks'[n].state # "queued"

\* the tasks of the batch of the last when_all whose callback was not called
Skipped == {n \in DOMAIN exec_batch : ~exec_batch[n].executed}

\* C11: with cancellation.  Once the stop token is set (a result satisfied
\* cancel), every task that starts returns without running its callback: it
\* is done, not executed and without a result; and whenever when_all returns,
\* finished is false if and only if at least one task of the batch was
\* skipped without executing.
C11_CancelSkips ==
    [][ /\ \A n \in 1..MaxTasks :
              (Starts(n) /\ _stop_token)
                  => /\ _tasks'[n].state = "done"
                     /\ ~_tasks'[n].executed
                     /\ ~_tasks'[n]._res.has_value
        /\ exec_pc' = "returned"
              => /\ \A n \in DOMAIN exec_batch' : exec_batch'[n].state = "done"
                 /\ exec_finished' = FALSE
                        <=> \E n \in DOMAIN exec_batch' : ~exec_batch'[n].executed
      ]_vars

\* C11 witness: in a batch of three the first task's result satisfied cancel
\* after the third had started; the second started afterwards and was
\* skipped, and when_all returned the first result only, finished = false.
C11_Witness ==
    /\ exec_pc = "returned"
    /\ Len(exec_batch) = 3
    /\ exec_batch[1].executed /\ cancel_pred(exec_batch[1]._res)
    /\ exec_batch[3].executed
    /\ Skipped = {2}
    /\ Len(exec_res) = 1
    /\ exec_finished = FALSE


\* reset() discards tasks in this step: the executor stays usable and its
\* task list is emptied
Resets == exec_pc = "ready" /\ exec_pc' = "ready" /\ _tasks # << >> /\ _tasks' = << >>

\* C27: reset() returns only when every added task has signalled, discards
\* the tasks and leaves the stop token clear, so that a task started after
\* it runs its callback; no other step clears the token: a token set by a
\* cancelling result is still set when when_all() has returned, and a task
\* added after that batch without a reset() is skipped when it starts.
C27_ResetClearsToken ==
    [][ /\ Resets => /\ \A n \in DOMAIN _tasks : _tasks[n].state = "done"
                     /\ _count' = 0
                     /\ ~_stop_token'
        /\ (_stop_token /\ ~_stop_token')
              => /\ exec_pc = "ready" /\ exec_pc' = "ready"
                 /\ \A n \in DOMAIN _tasks : _tasks[n].state = "done"
                 /\ _tasks' = << >>
        /\ (exec_pc = "ready" /\ exec_pc' = "returned")
              => _stop_token' = _stop_token
        /\ \A n \in 1..MaxTasks :
              Starts(n) => IF _stop_token
                           THEN _tasks'[n].state = "done" /\ ~_tasks'[n].executed
                           ELSE _tasks'[n].state = "running"
        /\ \A n \in DOMAIN _tasks :
              (_tasks[n].state = "running" /\ n \in DOMAIN _tasks'
                   /\ _tasks'[n].state = "done") => _tasks'[n].executed
      ]_vars

\* C27 witness: reset() has cleared a stop token that a cancelling result
\* had set, and a task added after it has run its callback with the token
\* clear.
C27_Witness ==
    /\ exec_token_cleared
    /\ ~_stop_token
    /\ exec_pc = "ready"
    /\ Len(_tasks) = 1
    /\ _tasks[1].executed
    /\ ~cancel_pred(_tasks[1]._res)

\* C29 (as claimed): the list when_all returns holds the result of every
\* task of the batch whose callback was executed, in submission order; no
\* executed task's result is left out because an earlier task was skipped.
C29_AllExecutedReturned ==
    exec_pc = "returned" =>
        /\ \A n \in DOMAIN exec_batch :
               exec_batch[n].executed =>
                   \E k \in DOMAIN exec_res : exec_res[k] = exec_batch[n]._res
        /\ \A j, k \in DOMAIN exec_res : j < k => exec_res[j].task < exec_res[k].task
(***************************************************************************)
(* Interval inspector (Checker::do_inspect)                                *)
(***************************************************************************)
\* milliseconds in a day, the factor of expiration_ms
MsPerDay == 86400000

\* std::numeric_limits<int64_t>::max() stands for "no S3 vault seen"; the
\* model's integers end at 2^31 - 1, which is above every lifecycle as well
INT64_MAX == 2147483647

\* the clock when do_inspect runs, and the times a ctime may hold
now == 10 * MsPerDay

CtimeValues ==
    {now - 7 * MsPerDay, now - 5 * MsPerDay, now - 4 * MsPerDay,
     now - 4 * MsPerDay + 1, now - 3 * MsPerDay, now - 2 * MsPerDay + 1, now}

\* the vaults of an instance: an HDFS vault, or an S3 vault with the outcome
\* of check_versioning and get_life_cycle and the days the latter reports
VaultIds == {"v1", "v2"}

LifecycleDays == {0, 2, 3, 7}

Vaults ==
    {[type |-> "HDFS", versioning_ok |-> TRUE, lifecycle_ok |-> TRUE, days |-> 0]}
    \cup {[type |-> "S3", versioning_ok |-> FALSE, lifecycle_ok |-> TRUE,
           days |-> 0]}
    \cup {[type |-> "S3", versioning_ok |-> TRUE, lifecycle_ok |-> FALSE,
           days |-> 0]}
    \cup {[type |-> "S3", versioning_ok |-> TRUE, lifecycle_ok |-> TRUE,
           days |-> d] : d \in LifecycleDays}

VaultMaps == UNION {[ids -> Vaults] : ids \in SUBSET VaultIds}

\* the value of job_check/{instance_id} as the inspector reads it: records
\* are written by prepare, lease and finish only, so a present record parses
InspectJobs ==
    {[present |-> FALSE, has_last_ctime_ms |-> FALSE, last_ctime_ms |-> 0]}
    \cup {[present |-> TRUE, has_last_ctime_ms |-> FALSE, last_ctime_ms |-> 0]}
    \cup {[present |-> TRUE, has_last_ctime_ms |-> TRUE, last_ctime_ms |-> t] :
              t \in CtimeValues}

\* no inspection is modelled
IdleInspect ==
    /\ insp_pc = "off"
    /\ reserved_buffer_days = 0
    /\ insp_ctime = 0
    /\ insp_vaults = << >>
    /\ insp_job = [present |-> FALSE, has_last_ctime_ms |-> FALSE,
                   last_ctime_ms |-> 0]
    /\ insp_err = "none"
    /\ insp_init = "none"
    /\ insp_ret = 0
    /\ bucket_lifecycle_days = 0
    /\ insp_alarms = {}

\* do_inspect is entered for an instance
InitInspect ==
    /\ insp_pc = "read"
    /\ reserved_buffer_days \in {0, 3}
    /\ insp_ctime \in {now - 7 * MsPerDay, now}
    /\ insp_vaults \in VaultMaps
    /\ insp_job \in InspectJobs
    /\ insp_err = "none"
    /\ insp_init = "none"
    /\ insp_ret = 0
    /\ bucket_lifecycle_days = 0
    /\ insp_alarms = {}

RECURSIVE get_bucket_lifecycle(_, _, _)
\* InstanceChecker::get_bucket_lifecycle: the loop over storage_vault_map_ in
\* the order `ids`; returns [ret, days]
get_bucket_lifecycle(map, ids, min_lifecycle_days) ==
    IF ids = << >> THEN [ret |-> 0, days |-> min_lifecycle_days]
    ELSE LET vault == map[Head(ids)] IN
         IF vault.type # "S3"
            THEN get_bucket_lifecycle(map, Tail(ids), min_lifecycle_days)
         ELSE IF ~vault.versioning_ok THEN [ret |-> -1, days |-> 0]
         ELSE IF ~vault.lifecycle_ok THEN [ret |-> -1, days |-> 0]
         ELSE get_bucket_lifecycle(map, Tail(ids),
                  IF vault.days < min_lifecycle_days
                  THEN vault.days ELSE min_lifecycle_days)

\* expiration_ms with the buffer subtracted whatever the lifecycle
expiration_ms_always_subtracts(lifecycle_days, buffer_days) ==
    (lifecycle_days - buffer_days) * MsPerDay

\* expiration_ms of do_inspect
expiration_ms(lifecycle_days, buffer_days) ==
    IF lifecycle_days > buffer_days
    THEN (lifecycle_days - buffer_days) * MsPerDay
    ELSE lifecycle_days * MsPerDay

\* last_ctime_ms of do_inspect: the record's field, else the instance's ctime
last_ctime_ms(err, rec, ctime) ==
    IF err = "TXN_KEY_NOT_FOUND" \/ ~rec.has_last_ctime_ms
    THEN ctime ELSE rec.last_ctime_ms

\* create_txn and txn->get(check_job_key)
InspectRead ==
    /\ insp_pc = "read"
    /\ \E create_ok \in BOOLEAN, get_ok \in BOOLEAN :
         LET err == IF ~create_ok THEN "TXN_CREATE_FAILED"
                    ELSE IF ~get_ok THEN "TXN_GET_FAILED"
                    ELSE IF insp_job.present THEN "TXN_OK"
                    ELSE "TXN_KEY_NOT_FOUND" IN
         /\ insp_err' = err
         /\ IF err = "TXN_CREATE_FAILED"
            THEN /\ insp_alarms' = insp_alarms \cup {"failed to create txn"}
                 /\ insp_pc' = "done"
            ELSE IF err = "TXN_GET_FAILED"
            THEN /\ insp_alarms' = insp_alarms \cup {"failed to get kv"}
                 /\ insp_pc' = "done"
            ELSE /\ UNCHANGED insp_alarms
                 /\ insp_pc' = "init"
    /\ UNCHANGED <<reserved_buffer_days, insp_ctime, insp_vaults, insp_job,
                 insp_init, insp_ret, bucket_lifecycle_days, daemonVars,
                 checkVars, invVars, execVars>>

\* checker.init(instance)
InspectInit ==
    /\ insp_pc = "init"
    /\ \E init_ret \in {0, -1} :
         /\ insp_init' = init_ret
         /\ IF init_ret # 0
            THEN /\ insp_alarms' =
                        insp_alarms \cup {"failed to init instance checker"}
                 /\ insp_pc' = "done"
            ELSE /\ UNCHANGED insp_alarms
                 /\ insp_pc' = "lifecycle"
    /\ UNCHANGED <<reserved_buffer_days, insp_ctime, insp_vaults, insp_job,
                 insp_err, insp_ret, bucket_lifecycle_days, daemonVars,
                 checkVars, invVars, execVars>>

\* checker.get_bucket_lifecycle(&bucket_lifecycle_days); a failure and the
\* absence of S3 vaults both end the inspection
InspectLifecycle ==
    /\ insp_pc = "lifecycle"
    /\ \E ids \in Orders(DOMAIN insp_vaults) :
         LET r == get_bucket_lifecycle(insp_vaults, ids, INT64_MAX) IN
         /\ insp_ret' = r.ret
         /\ bucket_lifecycle_days' = r.days
         /\ IF r.ret # 0
            THEN /\ insp_alarms' =
                        insp_alarms \cup {"failed to get bucket lifecycle"}
                 /\ insp_pc' = "done"
            ELSE /\ UNCHANGED insp_alarms
                 /\ insp_pc' = IF r.days = INT64_MAX THEN "done" ELSE "decide"
    /\ UNCHANGED <<reserved_buffer_days, insp_ctime, insp_vaults, insp_job,
                 insp_err, insp_init, daemonVars, checkVars, invVars,
                 execVars>>

\* InspectDecide with the buffer subtracted whatever the lifecycle
InspectDecide_always_subtracts ==
    /\ insp_pc = "decide"
    /\ insp_alarms' =
           IF now - last_ctime_ms(insp_err, insp_job, insp_ctime)
                  >= expiration_ms_always_subtracts(bucket_lifecycle_days,
                                                    reserved_buffer_days)
           THEN insp_alarms \cup {"check risks"} ELSE insp_alarms
    /\ insp_pc' = "done"
    /\ UNCHANGED <<reserved_buffer_days, insp_ctime, insp_vaults, insp_job,
                 insp_err, insp_init, insp_ret, bucket_lifecycle_days,
                 daemonVars, checkVars, invVars, execVars>>

\* last_ctime_ms, expiration_ms and the test that emits the alarm
InspectDecide ==
    /\ insp_pc = "decide"
    /\ insp_alarms' =
           IF now - last_ctime_ms(insp_err, insp_job, insp_ctime)
                  >= expiration_ms(bucket_lifecycle_days, reserved_buffer_days)
           THEN insp_alarms \cup {"check risks"} ELSE insp_alarms
    /\ insp_pc' = "done"
    /\ UNCHANGED <<reserved_buffer_days, insp_ctime, insp_vaults, insp_job,
                 insp_err, insp_init, insp_ret, bucket_lifecycle_days,
                 daemonVars, checkVars, invVars, execVars>>

NextInspect ==
    \/ InspectRead
    \/ InspectInit
    \/ InspectLifecycle
    \/ InspectDecide

(***************************************************************************)
(* Claims about the inspector                                              *)
(***************************************************************************)
\* the S3 vaults of the inspected instance
S3Vaults == {v \in DOMAIN insp_vaults : insp_vaults[v].type = "S3"}

\* the minimum lifecycle over the S3 vaults
MinLifecycleDays ==
    CHOOSE d \in {insp_vaults[v].days : v \in S3Vaults} :
        \A v \in S3Vaults : d <= insp_vaults[v].days

\* C12: when do_inspect has returned, it emitted the 'check risks' alarm if
\* and only if the read of the job record and the checker's init succeeded,
\* the instance has an S3 vault, every S3 vault passed the versioning and
\* lifecycle queries, and now - last_ctime_ms >= expiration_ms, with
\* lifecycle_days the minimum over the S3 vaults, expiration_ms =
\* (lifecycle_days - reserved_buffer_days) * 86400000 when lifecycle_days >
\* reserved_buffer_days and lifecycle_days * 86400000 otherwise, and
\* last_ctime_ms the record's field when the record exists and has it, else
\* the instance's ctime.
C12_InspectAlarm ==
    insp_pc = "done" =>
        ("check risks" \in insp_alarms
         <=> /\ insp_err \in {"TXN_OK", "TXN_KEY_NOT_FOUND"}
             /\ insp_init = 0
             /\ S3Vaults # {}
             /\ \A v \in S3Vaults : /\ insp_vaults[v].versioning_ok
                                    /\ insp_vaults[v].lifecycle_ok
             /\ LET days == MinLifecycleDays
                    last == IF insp_job.present /\ insp_job.has_last_ctime_ms
                            THEN insp_job.last_ctime_ms ELSE insp_ctime
                    expiration == IF days > reserved_buffer_days
                                  THEN (days - reserved_buffer_days) * 86400000
                                  ELSE days * 86400000
                IN now - last >= expiration)

\* C12 witness: lifecycle 7 (the minimum of two S3 vaults would do as well),
\* buffer 3, the record's last_ctime_ms 5 days old while the instance was
\* created just now: expiration_ms is 4 days and the alarm was emitted.
C12_Witness ==
    /\ insp_pc = "done"
    /\ reserved_buffer_days = 3
    /\ bucket_lifecycle_days = 7
    /\ insp_job.present /\ insp_job.has_last_ctime_ms
    /\ insp_job.last_ctime_ms = now - 5 * MsPerDay
    /\ insp_ctime = now
    /\ "check risks" \in insp_alarms
(***************************************************************************)
(* Specification of one daemon process                                     *)
(***************************************************************************)
Init == InitDaemon({"P"}, 2, OneInstance) /\ IdleCheck /\ IdleInverted /\ IdleExecutor /\ IdleInspect

Next ==
    \/ \E p \in fleet : ScannerExit(p)
    \/ \E p \in fleet : ScannerList(p)
    \/ \E p \in fleet : ScannerEnqueue(p)
    \/ \E p \in fleet : LeaseExit(p)
    \/ \E p \in fleet : LeaseReserve(p)
    \/ \E p \in fleet : LeaseSnapshot(p)
    \/ \E p \in fleet : LeaseRenew(p)
    \/ \E p \in fleet : LeaseStop(p)
    \/ \E p \in fleet : InspectExit(p)
    \/ \E p \in fleet : InspectInstances(p)
    \/ \E p \in fleet, w \in Workers : WorkerFetch(p, w)
    \/ \E p \in fleet, w \in Workers : WorkerWake(p, w)
    \/ \E p \in fleet, w \in Workers : WorkerBlock(p, w)
    \/ \E p \in fleet, w \in Workers : WorkerRecheck(p, w)
    \/ \E p \in fleet, w \in Workers : WorkerPrepare(p, w)
    \/ \E p \in fleet, w \in Workers : WorkerEmplace(p, w)
    \/ \E p \in fleet, w \in Workers : WorkerBeginCheck(p, w)
    \/ \E p \in fleet, w \in Workers : WorkerCheck(p, w)
    \/ \E p \in fleet, w \in Workers : WorkerFinish(p, w)
    \/ \E p \in fleet, w \in Workers : WorkerErase(p, w)
    \/ \E p \in fleet : StopNotify(p)
    \/ \E p \in fleet : StopCheckers(p)
    \/ \E p \in fleet : StopJoin(p)
    \/ Tick

(***************************************************************************)
(* Specification of a fleet: two processes, one worker each, one KV store. *)
(* No process is stopped and the inspectors, which touch neither the job   *)
(* records nor the working sets, are left out.                             *)
(***************************************************************************)
InitFleet == InitDaemon(Procs, 1, OneInstance) /\ IdleCheck /\ IdleInverted /\ IdleExecutor /\ IdleInspect

NextFleet ==
    \/ \E p \in fleet : ScannerList(p)
    \/ \E p \in fleet : ScannerEnqueue(p)
    \/ \E p \in fleet : LeaseReserve(p)
    \/ \E p \in fleet : LeaseSnapshot(p)
    \/ \E p \in fleet : LeaseRenew(p)
    \/ \E p \in fleet : LeaseStop(p)
    \/ \E p \in fleet, w \in Workers : WorkerFetch(p, w)
    \/ \E p \in fleet, w \in Workers : WorkerWake(p, w)
    \/ \E p \in fleet, w \in Workers : WorkerBlock(p, w)
    \/ \E p \in fleet, w \in Workers : WorkerRecheck(p, w)
    \/ \E p \in fleet, w \in Workers : WorkerPrepare(p, w)
    \/ \E p \in fleet, w \in Workers : WorkerEmplace(p, w)
    \/ \E p \in fleet, w \in Workers : WorkerBeginCheck(p, w)
    \/ \E p \in fleet, w \in Workers : WorkerCheck(p, w)
    \/ \E p \in fleet, w \in Workers : WorkerFinish(p, w)
    \/ \E p \in fleet, w \in Workers : WorkerErase(p, w)
    \/ Tick

(***************************************************************************)
(* Specification of one daemon process with one check worker and two       *)
(* instances to check: the pending queue holds up to two instances.        *)
(***************************************************************************)
InitQueue ==
    /\ InitDaemon({"P"}, 1, TwoInstances)
    /\ IdleCheck /\ IdleInverted /\ IdleExecutor /\ IdleInspect

(***************************************************************************)
(* Specification of one daemon process with one check worker and one       *)
(* instance, and the clock the worker's time stamps are read from.         *)
(***************************************************************************)
InitWorker ==
    /\ InitDaemon({"P"}, 1, OneInstance)
    /\ IdleCheck /\ IdleInverted /\ IdleExecutor /\ IdleInspect

NextWorker ==
    \/ \E p \in fleet : DaemonStep(p)
    \/ TickClock

(***************************************************************************)
(* Specification of one daemon process with one check worker under several *)
(* settings of the whitelist and the blacklist.                            *)
(***************************************************************************)
\* settings of config::recycle_whitelist and config::recycle_blacklist
FilterConfigs ==
    {InstanceFilter(recycle_whitelist, recycle_blacklist),
     InstanceFilter({}, {"i1"}),
     InstanceFilter({"i1", "i3"}, {}),
     InstanceFilter({"i4"}, {"i4"}),
     InstanceFilter({"i3"}, {"i1"})}

InitFilter ==
    /\ \E filter \in FilterConfigs :
          InitChecker({"P"}, 1, OneInstance, filter)
    /\ IdleCheck /\ IdleInverted /\ IdleExecutor /\ IdleInspect

(***************************************************************************)
(* The specifications                                                      *)
(***************************************************************************)
\* no daemon is started
IdleDaemon == InitDaemon({}, 0, << >>)

InitSpecCheck == IdleDaemon /\ InitCheck /\ IdleInverted /\ IdleExecutor /\ IdleInspect

InitSpecCheckZero ==
    IdleDaemon /\ InitCheckZero /\ IdleInverted /\ IdleExecutor /\ IdleInspect

InitSpecInverted == IdleDaemon /\ InitInverted /\ IdleExecutor /\ IdleInspect

InitSpecExecutor == IdleDaemon /\ IdleCheck /\ IdleInverted /\ InitExecutor /\ IdleInspect

Spec == Init /\ [][Next]_vars

SpecFleet == InitFleet /\ [][NextFleet]_vars

SpecQueue == InitQueue /\ [][Next]_vars

SpecFilter == InitFilter /\ [][Next]_vars

SpecWorker == InitWorker /\ [][NextWorker]_vars

SpecCheck == InitSpecCheck /\ [][NextCheck]_vars

SpecTabletZero == InitSpecCheckZero /\ [][NextCheck]_vars

SpecTruncated == InitSpecCheck /\ [][NextTruncated]_vars

SpecInverted == InitSpecInverted /\ [][NextInverted]_vars

InitSpecInspect ==
    IdleDaemon /\ IdleCheck /\ IdleInverted /\ IdleExecutor /\ InitInspect

SpecExecutor == InitSpecExecutor /\ [][NextExecutor]_vars

SpecInspect == InitSpecInspect /\ [][NextInspect]_vars

====
